---------------------------- MODULE Spec2Model ----------------------------
(***************************************************************************)
(* State-machine model of the USBTMC host driver (src/usbtmc.c).           *)
(*                                                                         *)
(* One device record (struct usbtmc_device_data, variable data), the open  *)
(* file handles (struct usbtmc_file_data, variable file_data, linked in    *)
(* file_list), the IO gate (io_mutex), user threads that call the file     *)
(* operations, the hot-unplug path (usbtmc_disconnect), the sysfs stores   *)
(* and the interrupt-in completion callback.                               *)
(*                                                                         *)
(* A thread's pc names the blocking call it is inside: "lock" is           *)
(* mutex_lock, "rd_bulk_in" is the usb_bulk_msg of usbtmc_read, and so on. *)
(* The action that leaves a pc is the return of that call, with the        *)
(* device's answer drawn from a small set, followed by the handler's code  *)
(* up to its next blocking call.  Memory allocation is assumed to succeed. *)
(***************************************************************************)
EXTENDS Integers, Sequences, FiniteSets, TLC

(* ------------------------- program constants -------------------------- *)
USBTMC_HEADER_SIZE == 12
USBTMC_SIZE_IOBUFFER == 2048
USBTMC_MIN_TIMEOUT == 500
USBTMC_TIMEOUT == 5000
USBTMC_MAX_READS_TO_CLEAR_BULK_IN == 100

(* errno values, returned negated *)
EPERM == 1
EIO == 5
EFAULT == 14
ENODEV == 19
EINVAL == 22
ETIMEDOUT == 110
(* the URB statuses that the switch of usbtmc_interrupt names *)
ENOENT == 2
EPIPE == 32
ETIME == 62
EOVERFLOW == 75
EILSEQ == 84
ECONNRESET == 104
ESHUTDOWN == 108

(* module parameters after the clamping of usbtmc_probe *)
io_buffer_size ==
    LET p == IF USBTMC_SIZE_IOBUFFER < 512 THEN 512 ELSE USBTMC_SIZE_IOBUFFER
    IN  p - (p % 4)

usb_timeout ==
    IF USBTMC_TIMEOUT < USBTMC_MIN_TIMEOUT THEN USBTMC_MIN_TIMEOUT
    ELSE USBTMC_TIMEOUT

(* wMaxPacketSize of the bulk-in endpoint (high speed) *)
wMaxPacketSize == 512

(* ------------------------------ bounds -------------------------------- *)
(* number of read/write/ioctl calls started in one behaviour of Spec *)
MaxOps == 2
(* number of read/write calls started in one behaviour of SpecRead *)
MaxReadOps == 2
(* number of READ_STB calls started in one behaviour of SpecIrq *)
MaxStbOps == 2

Threads == {"u1", "u2"}
Handles == {"h1", "h2"}
NoHandle == "none"
NoThread == "none"

(* arguments of the ioctls *)
TimeoutArgs == {USBTMC_MIN_TIMEOUT - 1, USBTMC_MIN_TIMEOUT}
EomArgs == {0, 1, 2}
(* struct usbtmc_termchar as the two bytes term_char, term_char_enabled:   *)
(* carriage return disabled, enabled, and with an invalid enable byte      *)
Termc(c, e) == c + 256 * e
TermcArgs == {Termc(13, 0), Termc(13, 1), Termc(13, 2)}
(* answers of the transport *)
TransportErrors == {0 - ETIMEDOUT}
Statuses == {"SUCCESS", "PENDING", "FAILED", "OTHER"}

(* ----------------------------- u8 helpers ----------------------------- *)
RECURSIVE Not8Bits(_, _)
Not8Bits(b, k) ==
    IF k = 0 THEN 0
    ELSE (1 - (b % 2)) + 2 * Not8Bits(b \div 2, k - 1)

(* (u8)~b *)
Not8(b) == Not8Bits(b, 8)

(* data->bTag++; if (!data->bTag) data->bTag++;  on a u8 *)
IncTagNoSkip(b) == (b + 1) % 256

IncTag(b) ==
    LET n == (b + 1) % 256
    IN  IF n = 0 THEN (n + 1) % 256 ELSE n

(* data->iin_bTag += 1; if (data->iin_bTag > 127) data->iin_bTag = 2; *)
BumpIinTagNoWrap(b) == (b + 1) % 256

BumpIinTag(b) ==
    LET n == (b + 1) % 256
    IN  IF n > 127 THEN 2 ELSE n

(* roundup(x, 4) *)
RoundUp4(x) == ((x + 3) \div 4) * 4

Min(a, b) == IF a < b THEN a ELSE b

(* ------------------------------- state -------------------------------- *)
VARIABLES
    data,        \* struct usbtmc_device_data
    file_data,   \* struct usbtmc_file_data of each handle
    file_list,   \* data->file_list: the linked handles, in list order
    io_mutex,    \* owner of data->io_mutex, or NoThread
    pc,          \* per thread: the blocking call it is inside
    op,          \* per thread: the file operation and its arguments
    loc,         \* per thread: the handler's local variables
    dpc,         \* position of usbtmc_disconnect
    nops         \* read/write/ioctl calls started (bounded in Spec)

vars == <<data, file_data, file_list, io_mutex, pc, op, loc, dpc, nops>>

NoOp == [kind |-> "none", h |-> NoHandle, cmd |-> "none", count |-> 0,
         arg |-> 0, uvalid |-> 0, z0 |-> FALSE,
         sig |-> FALSE]  \* the call is made by the handler of a SIGIO

NoHdr == [MsgID |-> 0, bTag |-> 0, bTagInv |-> 0, size |-> 0, attr |-> 0,
          TermChar |-> 0]

(* locals of the handlers, with the bookkeeping of what the call has done  *)
(* on the wire and in user memory so far                                   *)
L0 == [retval |-> 0, remaining |-> 0, done |-> 0, this_part |-> 0,
       n_bytes |-> 0, n |-> 0, actual |-> 0,
       buffer |-> NoHdr,  \* header of the frame handed to bulk-out
       tag0 |-> 0,        \* data->bTag when the handler took the gate
       frames |-> 0,      \* bulk-out frames this call has emitted
       lasttag |-> 0,     \* bTag in the header of the last frame emitted
       sent |-> <<>>,     \* the DEV_DEP_MSG_OUT frames a write has built
       acked |-> 0,       \* frames of which bulk-out has taken every byte
       segs |-> <<>>,     \* of the last frame: the pieces bulk-out has taken,
                          \* each with its offset in the frame and its length
       nchar0 |-> 0 - 1,  \* n_characters of the first reply header, -1: none
       eom0 |-> 0,        \* bit 0 of bmTransferAttributes of that header
       ahead |-> 0 - 12,  \* bytes received so far - 12 - done, kept up to 1:
                          \* payload index of the next buffer's byte 0, less done
       ordered |-> TRUE,  \* every copy to the user so far put payload bytes
                          \* done..done+len-1 at buf+done
       late |-> FALSE,    \* a bulk-in was issued after n_characters were copied
       fault |-> "none",  \* protocol fault found in the first reply
       reparsed |-> FALSE,\* a transfer after the first was parsed as a header
       idle |-> 0,        \* the bulk-in transfers in a row, modulo 2, that left
                          \* done and remaining as they were
       xerr |-> 0,        \* negative result of the bulk transfer that failed
       xpipe |-> "none",  \* and its pipe: "in" or "out"
       aborted |-> "none",\* abort sequence the handler ran: "in" or "out"
       abrv |-> 1,        \* what that abort sequence returned, 1: none
       (* of an ABORT_BULK_IN, ABORT_BULK_OUT or CLEAR ioctl: *)
       st |-> "none",     \* status byte of its last control reply
       spun |-> FALSE,    \* it went back to a CHECK request with n unchanged
       halted |-> FALSE,  \* it called usb_clear_halt on bulk-out
       mask |-> {},       \* event mask computed by usbtmc_poll
       wValue |-> 0,      \* wValue of its INITIATE_ABORT or READ_STATUS_BYTE
       ctrl2 |-> 0 - 1,   \* buffer[2] of the READ_STATUS_BYTE reply, -1: none
       stb |-> 0 - 1]     \* status byte stored at the user pointer, -1: none

FD0 == [open |-> FALSE, srq_byte |-> 0, srq_asserted |-> 0, TermChar |-> 0,
        TermCharEnabled |-> FALSE, auto_abort |-> FALSE]

(* get_capabilities: data->usb488_caps from bytes 14 and 15 of the answer *)
Usb488Caps(b14, b15) == (b14 % 8) + (b15 % 16) * 16

(* bytes 14 and 15 of the GET_CAPABILITIES answer of a device that reports *)
(* every USB488 capability, and of one that reports none                   *)
AllCaps == <<7, 15>>
CapBytes == {<<0, 0>>, AllCaps}

(* usbtmc_probe: the device record after a successful probe *)
ProbeData(iin) ==
    [bTag |-> 1, bTag_last_write |-> 0, bTag_last_read |-> 0,
     bNotify1 |-> 0, bNotify2 |-> 0, iin_bTag |-> 2, iin_data_valid |-> 0,
     usb488_caps |-> Usb488Caps(AllCaps[1], AllCaps[2]),
     device_capabilities |-> 1,  \* byte 5 of the GET_CAPABILITIES answer
     iin_ep_present |-> iin,
     iin_urb |-> IF iin THEN "submitted" ELSE "none",
     iin_status |-> 0,  \* urb->status of the last completion
     timeout |-> usb_timeout, TermChar |-> 10, TermCharEnabled |-> FALSE,
     auto_abort |-> FALSE, eom_val |-> 1, zombie |-> FALSE,
     kref |-> IF iin THEN 2 ELSE 1, freed |-> FALSE,
     dev_lock |-> "none",  \* owner of the spinlock: a thread, "irq" or "none"
     fasync |-> FALSE,     \* data->fasync is not NULL
     cb |-> "none",        \* where a callback that is under way stands
     cb_stb |-> 0,         \* iin_buffer[1] of the SRQ it is handling
     sigio |-> {}]         \* the handles that were listed when SIGIO was sent

Init ==
    /\ \E iin \in BOOLEAN : data = ProbeData(iin)
    /\ file_data = [h \in Handles |-> FD0]
    /\ file_list = <<>>
    /\ io_mutex = NoThread
    /\ pc = [t \in Threads |-> "idle"]
    /\ op = [t \in Threads |-> NoOp]
    /\ loc = [t \in Threads |-> L0]
    /\ dpc = "connected"
    /\ nops = 0

(* the same, for a device of either kind of CapBytes *)
InitCaps ==
    /\ \E iin \in BOOLEAN, c \in CapBytes :
          data = [ProbeData(iin) EXCEPT !.usb488_caps = Usb488Caps(c[1], c[2])]
    /\ file_data = [h \in Handles |-> FD0]
    /\ file_list = <<>>
    /\ io_mutex = NoThread
    /\ pc = [t \in Threads |-> "idle"]
    /\ op = [t \in Threads |-> NoOp]
    /\ loc = [t \in Threads |-> L0]
    /\ dpc = "connected"
    /\ nops = 0


(* ------------------------- calling an operation ----------------------- *)
Busy(h) == \E u \in Threads : pc[u] # "idle" /\ op[u].h = h

(* a handle a thread can pass to read, write or ioctl: open() has returned *)
(* it and release() has not been called on it                              *)
Usable(h) ==
    /\ file_data[h].open
    /\ \A u \in Threads :
          (pc[u] # "idle" /\ op[u].h = h) => op[u].kind \notin {"open", "release"}

SetPc(t, p) == pc' = [pc EXCEPT ![t] = p]
SetLoc(t, l) == loc' = [loc EXCEPT ![t] = l]

(* usbtmc_open up to mutex_lock: the interface is still registered, the    *)
(* handle is allocated and takes a reference on the device record          *)
StartOpen(t, h) ==
    /\ pc[t] = "idle"
    /\ dpc = "connected"
    /\ ~file_data[h].open
    /\ ~Busy(h)
    /\ data' = [data EXCEPT !.kref = @ + 1]
    /\ op' = [op EXCEPT ![t] = [NoOp EXCEPT !.kind = "open", !.h = h]]
    /\ SetPc(t, "lock")
    /\ UNCHANGED <<file_data, file_list, io_mutex, loc, dpc, nops>>

(* usbtmc_release up to mutex_lock: the last reference on the file is gone *)
StartRelease(t, h) ==
    /\ pc[t] = "idle"
    /\ file_data[h].open
    /\ ~Busy(h)
    /\ op' = [op EXCEPT ![t] = [NoOp EXCEPT !.kind = "release", !.h = h]]
    /\ SetPc(t, "lock")
    /\ UNCHANGED <<data, file_data, file_list, io_mutex, loc, dpc, nops>>

(* usbtmc_read, usbtmc_write, usbtmc_ioctl up to mutex_lock *)
StartCall(t, o) ==
    /\ pc[t] = "idle"
    /\ Usable(o.h)
    /\ op' = [op EXCEPT ![t] = [o EXCEPT !.z0 = data.zombie]]
    /\ SetPc(t, "lock")
    /\ UNCHANGED <<data, file_data, file_list, io_mutex, loc, dpc>>

ReadCall(h, c, u) ==
    [NoOp EXCEPT !.kind = "read", !.h = h, !.count = c, !.uvalid = u]

WriteCall(h, c, u) ==
    [NoOp EXCEPT !.kind = "write", !.h = h, !.count = c, !.uvalid = u]

IoctlCall(h, cmd, a, u) ==
    [NoOp EXCEPT !.kind = "ioctl", !.h = h, !.cmd = cmd, !.arg = a, !.uvalid = u]

PollCall(h) == [NoOp EXCEPT !.kind = "poll", !.h = h]

(* the calls a thread can make: a read or write of c bytes into or from a *)
(* buffer of which u bytes are accessible (ReadCall, WriteCall), an ioctl  *)
(* with the argument found at its user pointer                             *)
IoctlArgs(cmd) ==
    IF cmd = "SET_TIMEOUT" THEN TimeoutArgs \X {0, 4}
    ELSE IF cmd = "EOM_ENABLE" THEN EomArgs \X {0, 1}
    ELSE IF cmd = "READ_STB" THEN {0} \X {0, 1}
    ELSE IF cmd = "CONFIG_TERMCHAR" THEN TermcArgs \X {0, 2}
    ELSE {<<0, 0>>}

IoctlCalls(hs, cmds) ==
    UNION { { IoctlCall(h, cmd, a[1], a[2]) : h \in hs, a \in IoctlArgs(cmd) } :
            cmd \in cmds }

StartOp(t, calls) == \E o \in calls : StartCall(t, o)

(* mutex_lock(&data->io_mutex) returns only when no one holds the mutex *)
GateAlwaysFree == TRUE

GateFree == io_mutex = NoThread

Lock(t) ==
    /\ pc[t] = "lock"
    /\ GateFree
    /\ io_mutex' = t
    /\ SetPc(t, "locked")
    /\ UNCHANGED <<data, file_data, file_list, op, loc, dpc, nops>>

(* mutex_unlock(&data->io_mutex) by thread t with locals l: the owner     *)
(* of the mutex afterwards                                                *)
MutexUnlockOnSuccess(t, l) == IF l.retval < 0 THEN t ELSE NoThread

MutexUnlock(t, l) == NoThread

(* the exit label: mutex_unlock, kfree(buffer), return retval *)
Unlock(t) ==
    /\ pc[t] = "exit"
    /\ io_mutex = t
    /\ io_mutex' = MutexUnlock(t, loc[t])
    /\ IF op[t].kind = "release"
       THEN SetPc(t, "rel_put") /\ UNCHANGED <<op, loc>>
       ELSE /\ SetPc(t, "idle")
            /\ op' = [op EXCEPT ![t] = NoOp]
            /\ SetLoc(t, L0)
    /\ UNCHANGED <<data, file_data, file_list, dpc, nops>>

(* the handler's locals when it has taken the gate *)
Entry(t) == [L0 EXCEPT !.tag0 = data.bTag]

(* ------------------------------ open/release --------------------------- *)
BeginOpen(t) ==
    /\ pc[t] = "locked"
    /\ op[t].kind = "open"
    /\ file_data' = [file_data EXCEPT ![op[t].h] =
          [FD0 EXCEPT !.open = TRUE,
                      !.TermChar = data.TermChar,
                      !.TermCharEnabled = data.TermCharEnabled,
                      !.auto_abort = data.auto_abort]]
    /\ file_list' = Append(file_list, op[t].h)
    /\ SetLoc(t, Entry(t))
    /\ SetPc(t, "exit")
    /\ UNCHANGED <<data, io_mutex, op, dpc, nops>>

ListDel(list, h) == SelectSeq(list, LAMBDA x : x # h)

BeginRelease(t) ==
    /\ pc[t] = "locked"
    /\ op[t].kind = "release"
    /\ file_list' = ListDel(file_list, op[t].h)
    /\ SetLoc(t, Entry(t))
    /\ SetPc(t, "exit")
    /\ UNCHANGED <<data, file_data, io_mutex, op, dpc, nops>>

(* kref_put(&data->kref, usbtmc_delete) *)
KrefPut(d) ==
    [d EXCEPT !.kref = @ - 1, !.freed = (d.kref - 1 = 0)]

(* usbtmc_release after mutex_unlock *)
RelPut(t) ==
    /\ pc[t] = "rel_put"
    /\ data' = KrefPut(data)
    /\ file_data' = [file_data EXCEPT ![op[t].h] = FD0]
    /\ SetPc(t, "idle")
    /\ op' = [op EXCEPT ![t] = NoOp]
    /\ SetLoc(t, L0)
    /\ UNCHANGED <<file_list, io_mutex, dpc, nops>>

(* -------------------------------- poll --------------------------------- *)
(* usbtmc_poll between mutex_lock and the no_poll label; poll_wait only    *)
(* registers the wait queue and does not block                             *)
BeginPoll(t) ==
    /\ pc[t] = "locked"
    /\ op[t].kind = "poll"
    /\ SetLoc(t, [Entry(t) EXCEPT !.mask =
                     IF data.zombie THEN {"POLLHUP", "POLLERR"}
                     ELSE IF file_data[op[t].h].srq_asserted # 0
                          THEN {"POLLPRI"}
                     ELSE {}])
    /\ SetPc(t, "exit")
    /\ UNCHANGED <<data, file_data, file_list, io_mutex, op, dpc, nops>>

(* ------------------------- zombie refusal ------------------------------ *)
(* if (data->zombie) { retval = -ENODEV; goto exit; } *)
ZombieRefusalOff(d) == FALSE

ZombieRefusal(d) == d.zombie

BeginZombie(t) ==
    /\ pc[t] = "locked"
    /\ op[t].kind \in {"read", "write", "ioctl"}
    /\ ZombieRefusal(data)
    /\ SetLoc(t, [Entry(t) EXCEPT !.retval = 0 - ENODEV])
    /\ SetPc(t, "exit")
    /\ UNCHANGED <<data, file_data, file_list, io_mutex, op, dpc, nops>>


(* ------------------------- abort state machines ------------------------ *)
(* return of usbtmc_ioctl_abort_bulk_in / _out to its caller: the ioctl    *)
(* returns rv, read and write drop it and keep their own retval            *)
AbortRetMasks(l, o, rv) ==
    [pc |-> "exit", l |-> [l EXCEPT !.retval = rv, !.abrv = rv]]

AbortRet(l, o, rv) ==
    [pc |-> "exit",
     l  |-> IF o.kind = "ioctl" THEN [l EXCEPT !.retval = rv, !.abrv = rv]
            ELSE [l EXCEPT !.abrv = rv]]

(* call of usbtmc_ioctl_abort_bulk_in: INITIATE_ABORT_BULK_IN is issued    *)
(* with wValue = data->bTag_last_read                                      *)
CallAbortIn(l, d) ==
    [pc |-> "abi_init",
     l  |-> [l EXCEPT !.aborted = "in", !.wValue = d.bTag_last_read]]

(* call of usbtmc_ioctl_abort_bulk_out: INITIATE_ABORT_BULK_OUT is issued  *)
(* with wValue = data->bTag_last_write                                     *)
CallAbortOut(l, d) ==
    [pc |-> "abo_init",
     l  |-> [l EXCEPT !.aborted = "out", !.wValue = d.bTag_last_write]]

Goes(t, r) == SetPc(t, r.pc) /\ SetLoc(t, r.l)

DevUnchanged == UNCHANGED <<data, file_data, file_list, io_mutex, op, dpc, nops>>

(* n++ of the drain loops; the count is kept up to the first value past    *)
(* the limit, beyond which the loops no longer read it differently         *)
IncN(n) == Min(n + 1, USBTMC_MAX_READS_TO_CLEAR_BULK_IN + 1)

(* lengths of the transfers a drain loop reads: one full packet or the     *)
(* whole IO buffer (four full packets), and for the drains of an ioctl     *)
(* also a transfer that ends in a short packet                             *)
DrainActuals == {wMaxPacketSize, io_buffer_size}

DrainReads(o) == IF o.kind = "ioctl" THEN DrainActuals \cup {64} ELSE DrainActuals

(* the bookkeeping of an ioctl's control reply st, or of its step to new   *)
Noted(o, l, st) == IF o.kind = "ioctl" THEN [l EXCEPT !.st = st] ELSE l

Marked(o, l, new) == IF o.kind = "ioctl" THEN new ELSE l

AbiInitDone(t) ==
    /\ pc[t] = "abi_init"
    /\ \E rv \in TransportErrors \cup {2}, st \in Statuses :
          LET l == IF rv < 0 THEN loc[t] ELSE Noted(op[t], loc[t], st) IN
          Goes(t, IF rv < 0 THEN AbortRet(l, op[t], rv)
                  ELSE IF st = "FAILED" THEN AbortRet(l, op[t], 0)
                  ELSE IF st # "SUCCESS" THEN AbortRet(l, op[t], 0 - EPERM)
                  ELSE IF wMaxPacketSize = 0 THEN AbortRet(l, op[t], 0 - EPERM)
                  ELSE [pc |-> "abi_drain1", l |-> [l EXCEPT !.n = 0]])
    /\ DevUnchanged

(* actual == max_size, the test of the drain loops *)
FullPacket(actual) == actual = wMaxPacketSize

(* one usb_bulk_msg of a drain loop has returned; the loop goes on at pc    *)
(* again, or the CHECK request at pc check follows                         *)
DrainStep(l, o, rv, actual, again, check, resetN) ==
    LET l1 == [l EXCEPT !.n = IncN(l.n),
                        !.actual = IF rv < 0 THEN @ ELSE actual] IN
    IF rv < 0 THEN AbortRet(l1, o, rv)
    ELSE IF FullPacket(actual) /\ l1.n < USBTMC_MAX_READS_TO_CLEAR_BULK_IN
         THEN [pc |-> again, l |-> l1]
    ELSE IF FullPacket(actual) THEN AbortRet(l1, o, 0 - EPERM)
    ELSE [pc |-> check, l |-> IF resetN THEN [l1 EXCEPT !.n = 0] ELSE l1]

AbiDrain1Done(t) ==
    /\ pc[t] = "abi_drain1"
    /\ \E rv \in TransportErrors \cup {0}, actual \in DrainReads(op[t]) :
          Goes(t, DrainStep(loc[t], op[t], rv, actual,
                            "abi_drain1", "abi_check", TRUE))
    /\ DevUnchanged

AbiCheckDone(t) ==
    /\ pc[t] = "abi_check"
    /\ \E rv \in TransportErrors \cup {8}, st \in Statuses, more \in {0, 1} :
          LET l == IF rv < 0 THEN loc[t] ELSE Noted(op[t], loc[t], st) IN
          Goes(t, IF rv < 0 THEN AbortRet(l, op[t], rv)
                  ELSE IF st = "SUCCESS" THEN AbortRet(l, op[t], 0)
                  ELSE IF st # "PENDING" THEN AbortRet(l, op[t], 0 - EPERM)
                  ELSE IF more = 1 THEN [pc |-> "abi_drain2", l |-> l]
                  ELSE IF FullPacket(l.actual)
                       THEN AbortRet(l, op[t], 0 - EPERM)
                  ELSE [pc |-> "abi_check",
                        l |-> Marked(op[t], l, [l EXCEPT !.spun = TRUE])])
    /\ DevUnchanged

AbiDrain2Done(t) ==
    /\ pc[t] = "abi_drain2"
    /\ \E rv \in TransportErrors \cup {0}, actual \in DrainReads(op[t]) :
          Goes(t, DrainStep(loc[t], op[t], rv, actual,
                            "abi_drain2", "abi_check", FALSE))
    /\ DevUnchanged

AboInitDone(t) ==
    /\ pc[t] = "abo_init"
    /\ \E rv \in TransportErrors \cup {2}, st \in Statuses :
          LET l == IF rv < 0 THEN loc[t] ELSE Noted(op[t], loc[t], st) IN
          Goes(t, IF rv < 0 THEN AbortRet(l, op[t], rv)
                  ELSE IF st # "SUCCESS" THEN AbortRet(l, op[t], 0 - EPERM)
                  ELSE [pc |-> "abo_check", l |-> [l EXCEPT !.n = 0]])
    /\ DevUnchanged

(* (buffer[0] == USBTMC_STATUS_PENDING) && (n < MAX_READS): check again *)
CheckAgainAlways(st, n) == st = "PENDING"

CheckAgain(st, n) ==
    st = "PENDING" /\ n < USBTMC_MAX_READS_TO_CLEAR_BULK_IN

AboCheckDone(t) ==
    /\ pc[t] = "abo_check"
    /\ \E rv \in TransportErrors \cup {8}, st \in Statuses :
          LET l0 == [loc[t] EXCEPT !.n = IncN(loc[t].n)]
              l == IF rv < 0 THEN l0 ELSE Noted(op[t], l0, st) IN
          Goes(t, IF rv < 0 THEN AbortRet(l, op[t], rv)
                  ELSE IF st = "SUCCESS"
                       THEN [pc |-> "abo_halt",
                             l |-> Marked(op[t], l, [l EXCEPT !.halted = TRUE])]
                  ELSE IF CheckAgain(st, l.n)
                       THEN [pc |-> "abo_check", l |-> l]
                  ELSE AbortRet(l, op[t], 0 - EPERM))
    /\ DevUnchanged

AboHaltDone(t) ==
    /\ pc[t] = "abo_halt"
    /\ \E rv \in TransportErrors \cup {0} :
          Goes(t, AbortRet(loc[t], op[t], IF rv < 0 THEN rv ELSE 0))
    /\ DevUnchanged

(* ------------------------------- CLEAR --------------------------------- *)
(* usbtmc_ioctl_clear: INITIATE_CLEAR has returned; actual is still 0 *)
ClrInitDone(t) ==
    /\ pc[t] = "clr_init"
    /\ \E rv \in TransportErrors \cup {1}, st \in Statuses :
          LET l == IF rv < 0 THEN loc[t] ELSE Noted(op[t], loc[t], st) IN
          Goes(t, IF rv < 0 THEN AbortRet(l, op[t], rv)
                  ELSE IF st # "SUCCESS" THEN AbortRet(l, op[t], 0 - EPERM)
                  ELSE IF wMaxPacketSize = 0 THEN AbortRet(l, op[t], 0 - EPERM)
                  ELSE [pc |-> "clr_check", l |-> [l EXCEPT !.n = 0]])
    /\ DevUnchanged

(* CHECK_CLEAR_STATUS has returned, with buffer[1] = more *)
ClrCheckDone(t) ==
    /\ pc[t] = "clr_check"
    /\ \E rv \in TransportErrors \cup {2}, st \in Statuses, more \in {0, 1} :
          LET l == IF rv < 0 THEN loc[t] ELSE Noted(op[t], loc[t], st) IN
          Goes(t, IF rv < 0 THEN AbortRet(l, op[t], rv)
                  ELSE IF st = "SUCCESS"
                       THEN [pc |-> "clr_halt",
                             l |-> Marked(op[t], l, [l EXCEPT !.halted = TRUE])]
                  ELSE IF st # "PENDING" THEN AbortRet(l, op[t], 0 - EPERM)
                  ELSE IF more = 1 THEN [pc |-> "clr_drain", l |-> l]
                  ELSE IF FullPacket(l.actual)
                       THEN AbortRet(l, op[t], 0 - EPERM)
                  ELSE [pc |-> "clr_check",
                        l |-> Marked(op[t], l, [l EXCEPT !.spun = TRUE])])
    /\ DevUnchanged

ClrDrainDone(t) ==
    /\ pc[t] = "clr_drain"
    /\ \E rv \in TransportErrors \cup {0}, actual \in DrainReads(op[t]) :
          Goes(t, DrainStep(loc[t], op[t], rv, actual,
                            "clr_drain", "clr_check", FALSE))
    /\ DevUnchanged

(* usb_clear_halt on bulk-out has returned *)
ClrHaltDone(t) ==
    /\ pc[t] = "clr_halt"
    /\ \E rv \in TransportErrors \cup {0} :
          Goes(t, AbortRet(loc[t], op[t], IF rv < 0 THEN rv ELSE 0))
    /\ DevUnchanged


(* ----------------------------- bulk-out tags --------------------------- *)
(* data->bTag_last_write = data->bTag; data->bTag++; if (!data->bTag) ...  *)
AdvanceTagKeep(d) == [d EXCEPT !.bTag_last_write = d.bTag]

AdvanceTagNoSnapshot(d) == [d EXCEPT !.bTag = IncTag(d.bTag)]

AdvanceTag(d) ==
    [d EXCEPT !.bTag_last_write = d.bTag, !.bTag = IncTag(d.bTag)]

(* a frame header is put in the buffer and handed to usb_bulk_msg *)
Emit(l, hdr) ==
    [l EXCEPT !.buffer = hdr, !.frames = @ + 1, !.lasttag = hdr.bTag]

(* ------------------------------ read engine ---------------------------- *)
(* send_request_dev_dep_msg_in: the header it builds; the four size bytes  *)
(* hold transfer_size, which is below 2^32 for every count used here       *)
RequestHeader(d, fd, transfer_size) ==
    [MsgID |-> 2, bTag |-> d.bTag, bTagInv |-> Not8(d.bTag),
     size |-> transfer_size,
     attr |-> IF fd.TermCharEnabled THEN 2 ELSE 0,
     TermChar |-> fd.TermChar]

BeginRead(t) ==
    /\ pc[t] = "locked"
    /\ op[t].kind = "read"
    /\ ~ZombieRefusal(data)
    /\ SetLoc(t, Emit(Entry(t),
                      RequestHeader(data, file_data[op[t].h], op[t].count)))
    /\ SetPc(t, "rd_send")
    /\ DevUnchanged

(* the fault exits of usbtmc_read after the request went out:              *)
(* if (data->auto_abort) usbtmc_ioctl_abort_bulk_in(data); goto exit;      *)
ReadFault(l, d) ==
    IF d.auto_abort THEN CallAbortIn(l, d) ELSE [pc |-> "exit", l |-> l]

(* the exit of usbtmc_read when the request could not be sent:             *)
(* if (data->auto_abort) usbtmc_ioctl_abort_bulk_out(data); goto exit;     *)
SendFaultNoAbort(l, d) == [pc |-> "exit", l |-> l]

SendFault(l, d) ==
    IF d.auto_abort THEN CallAbortOut(l, d) ELSE [pc |-> "exit", l |-> l]

(* usb_bulk_msg of send_request_dev_dep_msg_in has returned rv *)
RdSendDone(t) ==
    /\ pc[t] = "rd_send"
    /\ \E rv \in TransportErrors \cup {0} :
          LET d == AdvanceTag(data)
              l == [loc[t] EXCEPT !.retval = rv, !.buffer = NoHdr,
                                  !.xerr = IF rv < 0 THEN rv ELSE @,
                                  !.xpipe = IF rv < 0 THEN "out" ELSE @]
          IN  /\ data' = d
              /\ Goes(t,
                   IF rv < 0
                   THEN SendFault(l, d)
                   ELSE LET l1 == [l EXCEPT !.remaining = op[t].count,
                                            !.this_part = op[t].count,
                                            !.done = 0]
                        IN  IF l1.remaining > 0
                            THEN [pc |-> "rd_bulk_in", l |-> l1]
                            ELSE [pc |-> "exit",
                                  l |-> [l1 EXCEPT !.retval = l1.done]])
    /\ UNCHANGED <<file_data, file_list, io_mutex, op, dpc, nops>>

(* what a bulk-in transfer can bring: its result, its length and the first *)
(* twelve bytes of the buffer read as a header.  The device declares one   *)
(* of NChars; a transfer is empty, a bare header's length, the whole IO    *)
(* buffer, or what is left of the message with its alignment bytes; short  *)
(* messages also come with the header and four bytes.                      *)
NChars(o) ==
    IF o.count <= 8 THEN {0, 5, o.count, o.count + 1}
    ELSE {0, 3000, o.count + 1}

BulkInActuals(l, o, n) ==
    LET small == IF o.count <= 8 THEN {16} ELSE {}
    IN  IF l.ahead < 0
        THEN {0, USBTMC_HEADER_SIZE,
              Min(io_buffer_size, USBTMC_HEADER_SIZE + RoundUp4(n))} \cup small
        ELSE IF l.done = 0
        THEN {0, USBTMC_HEADER_SIZE,
              Min(io_buffer_size, RoundUp4(l.nchar0))} \cup small
        ELSE {0, io_buffer_size, Min(io_buffer_size, RoundUp4(l.nchar0 - l.done))}

BulkInReplies(l, d, o) ==
    { [rv |-> e, actual |-> 0, MsgID |-> 0, bTag |-> 0, n_characters |-> 0,
       eom |-> 0] : e \in TransportErrors }
    \cup
    UNION { { [rv |-> 0, actual |-> a, MsgID |-> m, bTag |-> b,
               n_characters |-> n, eom |-> e] :
                a \in BulkInActuals(l, o, n), m \in {1, 2},
                b \in {d.bTag_last_write, IncTag(d.bTag_last_write)},
                e \in {0, 1} } :
            n \in NChars(o) }

(* copy_to_user(buf + done, src, len) of a call whose user buffer has      *)
(* o.uvalid accessible bytes                                               *)
CopyFaults(o, done, len) == len > 0 /\ done + len > o.uvalid

(* if (done == 0): the transfer is parsed as a reply header *)
ParseHeader(l) == l.done = 0

(* the body of the while loop of usbtmc_read after usb_bulk_msg returned   *)
(* r, with data->bTag_last_read already stored in d                        *)
ReadChunk(l0, d, o, r) ==
    LET first == l0.ahead < 0
        l == [l0 EXCEPT !.retval = r.rv,
                        !.idle = 0,
                        !.xerr = IF r.rv < 0 THEN r.rv ELSE @,
                        !.xpipe = IF r.rv < 0 THEN "in" ELSE @,
                        !.reparsed = @ \/ (~first /\ r.rv >= 0 /\ ParseHeader(l0)),
                        !.nchar0 = IF first /\ r.rv = 0
                                      /\ r.actual >= USBTMC_HEADER_SIZE
                                   THEN r.n_characters ELSE @,
                        !.eom0 = IF first /\ r.rv = 0
                                    /\ r.actual >= USBTMC_HEADER_SIZE
                                 THEN r.eom % 2 ELSE @]
        (* payload index of byte off of this buffer, less done *)
        Skew(off) == IF first THEN off - USBTMC_HEADER_SIZE
                     ELSE l0.ahead + off
        Loop(x) ==
            IF x.remaining > 0
            THEN [pc |-> "rd_bulk_in",
                  l |-> [x EXCEPT !.late = @ \/ (x.nchar0 >= 0
                                                 /\ x.done >= x.nchar0),
                                  !.idle = IF x.done = l0.done
                                              /\ x.remaining = l0.remaining
                                           THEN 1 - l0.idle ELSE 0]]
            ELSE [pc |-> "exit", l |-> [x EXCEPT !.retval = x.done]]
        Copy(x, off, len, rem) ==
            IF CopyFaults(o, x.done, len)
            THEN [pc |-> "exit",
                  l |-> [x EXCEPT !.retval = 0 - EFAULT, !.remaining = rem]]
            ELSE Loop([x EXCEPT
                    !.remaining = rem,
                    !.done = @ + len,
                    !.ordered = @ /\ (len > 0 =>
                                        /\ Skew(off) = 0
                                        /\ x.done + len <= x.nchar0),
                    !.ahead = LET tot == (IF first THEN 0 - USBTMC_HEADER_SIZE
                                          ELSE l0.ahead) + r.actual - len
                              IN  Min(tot, 1)])
    IN
    IF r.rv < 0 THEN ReadFault(l, d)
    ELSE IF ParseHeader(l)
    THEN IF r.actual < USBTMC_HEADER_SIZE
            THEN ReadFault([l EXCEPT !.fault = "short"], d)
         ELSE IF r.MsgID # 2
            THEN ReadFault([l EXCEPT !.fault = "msgid"], d)
         ELSE IF r.bTag # d.bTag_last_write
            THEN ReadFault([l EXCEPT !.fault = "btag"], d)
         ELSE IF r.n_characters > l.this_part
            THEN ReadFault([l EXCEPT !.fault = "size"], d)
         ELSE
            LET a1 == r.actual - USBTMC_HEADER_SIZE
                rem1 == IF l.remaining > r.n_characters
                        THEN r.n_characters ELSE l.remaining
                a2 == IF a1 > rem1 THEN rem1 ELSE a1
                rem2 == rem1 - a2
                rem3 == IF r.eom % 2 = 1 /\ a2 >= r.n_characters
                        THEN 0 ELSE rem2
            IN  Copy(l, USBTMC_HEADER_SIZE, a2, rem3)
    ELSE
        LET a2 == IF r.actual > l.remaining THEN l.remaining ELSE r.actual
        IN  Copy(l, 0, a2, l.remaining - a2)

(* data->bTag_last_read = data->bTag, after every bulk-in of a read *)
StoreLastRead(d) == [d EXCEPT !.bTag_last_read = d.bTag]

RdBulkInDone(t) ==
    /\ pc[t] = "rd_bulk_in"
    /\ \E r \in BulkInReplies(loc[t], data, op[t]) :
          LET d == StoreLastRead(data) IN
          /\ data' = d
          /\ Goes(t, ReadChunk(loc[t], d, op[t], r))
    /\ UNCHANGED <<file_data, file_list, io_mutex, op, dpc, nops>>

(* ------------------------------ write engine --------------------------- *)
(* buffer[8] of a chunk: 0 when more chunks follow, else data->eom_val *)
ChunkAttrEom(big, d) == d.eom_val

ChunkAttr(big, d) == IF big THEN 0 ELSE d.eom_val

(* n_bytes = roundup(USBTMC_HEADER_SIZE + this_part, 4) *)
FrameLenNoPad(part) == USBTMC_HEADER_SIZE + part

FrameLen(part) == RoundUp4(USBTMC_HEADER_SIZE + part)

(* the head of the while loop of usbtmc_write, up to usb_bulk_msg: the     *)
(* frame is the header, plen bytes copied from buf + from, and the bytes   *)
(* up to len set to pad by memset                                          *)
WriteChunk(l, d, o) ==
    IF l.remaining > 0
    THEN LET big == l.remaining > io_buffer_size - USBTMC_HEADER_SIZE
             part == IF big THEN io_buffer_size - USBTMC_HEADER_SIZE
                     ELSE l.remaining
             hdr == [MsgID |-> 1, bTag |-> d.bTag, bTagInv |-> Not8(d.bTag),
                     size |-> part,
                     attr |-> ChunkAttr(big, d),
                     TermChar |-> 0]
             frame == [hdr |-> hdr, from |-> l.done, plen |-> part,
                       len |-> FrameLen(part), pad |-> 0]
             l1 == [l EXCEPT !.this_part = part, !.buffer = NoHdr]
         IN  IF l.done + part > o.uvalid
             THEN [pc |-> "exit", l |-> [l1 EXCEPT !.retval = 0 - EFAULT]]
             ELSE [pc |-> "wr_bulk_out",
                   l |-> [Emit(l1, hdr) EXCEPT
                            !.n_bytes = FrameLen(part),
                            !.sent = Append(@, frame),
                            !.segs = <<>>]]
    ELSE [pc |-> "exit", l |-> [l EXCEPT !.retval = o.count, !.buffer = NoHdr]]

BeginWrite(t) ==
    /\ pc[t] = "locked"
    /\ op[t].kind = "write"
    /\ ~ZombieRefusal(data)
    /\ Goes(t, WriteChunk([Entry(t) EXCEPT !.remaining = op[t].count,
                                           !.done = 0],
                          data, op[t]))
    /\ DevUnchanged

(* the device takes the whole of what is offered, or half of a frame that *)
(* is offered for the first time                                          *)
BulkOutActuals(l) ==
    {l.n_bytes} \cup
    (IF l.n_bytes = FrameLen(l.this_part)
     THEN {l.n_bytes \div 2} ELSE {})

(* usb_bulk_msg(..., buffer, n_bytes, ...) in the do-while loop: the offset *)
(* in the frame of the first byte it is given                              *)
OfferedFrom(l) == 0

(* if (retval < 0) after the do-while loop of usbtmc_write *)
SendFailedNever(l) == FALSE

SendFailed(l) == l.retval < 0

(* usb_bulk_msg of the do-while loop of usbtmc_write has returned *)
WrBulkOutDone(t) ==
    /\ pc[t] = "wr_bulk_out"
    /\ \E rv \in TransportErrors \cup {0},
          actual \in BulkOutActuals(loc[t]) :
          LET l0 == [loc[t] EXCEPT !.retval = rv,
                                   !.xerr = IF rv < 0 THEN rv ELSE @,
                                   !.xpipe = IF rv < 0 THEN "out" ELSE @,
                                   !.segs = IF rv # 0 THEN @
                                            ELSE Append(@,
                                                   [off |-> OfferedFrom(loc[t]),
                                                    len |-> actual]),
                                   !.n_bytes = IF rv # 0 THEN @ ELSE @ - actual]
              l == [l0 EXCEPT !.acked = IF rv = 0 /\ l0.n_bytes = 0
                                        THEN @ + 1 ELSE @]
          IN
          IF rv = 0 /\ l.n_bytes # 0
          THEN /\ Goes(t, [pc |-> "wr_bulk_out", l |-> l])
               /\ UNCHANGED data
          ELSE LET d == AdvanceTag(data) IN
               /\ data' = d
               /\ Goes(t,
                    IF SendFailed(l)
                    THEN IF d.auto_abort
                         THEN CallAbortOut([l EXCEPT !.buffer = NoHdr], d)
                         ELSE [pc |-> "exit", l |-> [l EXCEPT !.buffer = NoHdr]]
                    ELSE WriteChunk([l EXCEPT
                                       !.remaining = @ - l.this_part,
                                       !.done = @ + l.this_part],
                                    d, op[t]))
    /\ UNCHANGED <<file_data, file_list, io_mutex, op, dpc, nops>>

(* ------------------------------- ioctls -------------------------------- *)
Ioctl(t, cmd) ==
    /\ pc[t] = "locked"
    /\ op[t].kind = "ioctl"
    /\ op[t].cmd = cmd
    /\ ~ZombieRefusal(data)

(* usbtmc488_ioctl_trigger up to usb_bulk_msg *)
BeginTrigger(t) ==
    /\ Ioctl(t, "TRIGGER")
    /\ Goes(t, [pc |-> "trg_send",
                l |-> Emit(Entry(t),
                           [MsgID |-> 128, bTag |-> data.bTag,
                            bTagInv |-> Not8(data.bTag), size |-> 0,
                            attr |-> 0, TermChar |-> 0])])
    /\ DevUnchanged

TrgSendDone(t) ==
    /\ pc[t] = "trg_send"
    /\ \E rv \in TransportErrors \cup {0} :
          /\ data' = AdvanceTag(data)
          /\ Goes(t, [pc |-> "exit",
                      l |-> [loc[t] EXCEPT !.retval = rv, !.buffer = NoHdr]])
    /\ UNCHANGED <<file_data, file_list, io_mutex, op, dpc, nops>>

BeginAbortBulkIn(t) ==
    /\ Ioctl(t, "ABORT_BULK_IN")
    /\ Goes(t, CallAbortIn(Entry(t), data))
    /\ DevUnchanged

BeginAbortBulkOut(t) ==
    /\ Ioctl(t, "ABORT_BULK_OUT")
    /\ Goes(t, CallAbortOut(Entry(t), data))
    /\ DevUnchanged

BeginClear(t) ==
    /\ Ioctl(t, "CLEAR")
    /\ Goes(t, [pc |-> "clr_init", l |-> Entry(t)])
    /\ DevUnchanged

(* usbtmc_ioctl_set_timeout *)
BeginSetTimeout(t) ==
    /\ Ioctl(t, "SET_TIMEOUT")
    /\ LET rv == IF op[t].uvalid < 4 THEN 0 - EFAULT
                 ELSE IF op[t].arg < USBTMC_MIN_TIMEOUT THEN 0 - EINVAL
                 ELSE 0
       IN  /\ data' = IF rv = 0 THEN [data EXCEPT !.timeout = op[t].arg]
                      ELSE data
           /\ Goes(t, [pc |-> "exit", l |-> [Entry(t) EXCEPT !.retval = rv]])
    /\ UNCHANGED <<file_data, file_list, io_mutex, op, dpc, nops>>

(* usbtmc_ioctl_eom_enable *)
BeginEomEnable(t) ==
    /\ Ioctl(t, "EOM_ENABLE")
    /\ LET rv == IF op[t].uvalid < 1 THEN 0 - EFAULT
                 ELSE IF op[t].arg > 1 THEN 0 - EINVAL
                 ELSE 0
       IN  /\ data' = IF rv = 0 THEN [data EXCEPT !.eom_val = op[t].arg]
                      ELSE data
           /\ Goes(t, [pc |-> "exit", l |-> [Entry(t) EXCEPT !.retval = rv]])
    /\ UNCHANGED <<file_data, file_list, io_mutex, op, dpc, nops>>

(* usbtmc_ioctl_config_termc *)
BeginConfigTermc(t) ==
    /\ Ioctl(t, "CONFIG_TERMCHAR")
    /\ LET term_char == op[t].arg % 256
           term_char_enabled == op[t].arg \div 256
           rv == IF op[t].uvalid < 2 THEN 0 - EFAULT
                 ELSE IF term_char_enabled > 1
                         \/ (term_char_enabled # 0
                             /\ data.device_capabilities % 2 = 0)
                      THEN 0 - EINVAL
                 ELSE 0
       IN  /\ data' = IF rv = 0
                      THEN [data EXCEPT !.TermChar = term_char,
                                        !.TermCharEnabled = term_char_enabled = 1]
                      ELSE data
           /\ Goes(t, [pc |-> "exit", l |-> [Entry(t) EXCEPT !.retval = rv]])
    /\ UNCHANGED <<file_data, file_list, io_mutex, op, dpc, nops>>

(* ------------------------------ READ_STB ------------------------------- *)
StbBytes == {64, 66}
(* what wait_event_interruptible_timeout returns on a signal: -ERESTARTSYS *)
WaitInterrupted == {0 - 512}

(* the exit label of usbtmc488_ioctl_read_stb: bump interrupt bTag *)
StbExit(d) == [d EXCEPT !.iin_bTag = BumpIinTag(d.iin_bTag)]

(* put_user(stb, arg) and the return value that follows it *)
PutStb(l, o, stb) ==
    IF o.uvalid < 1 THEN [l EXCEPT !.retval = 0 - EFAULT]
    ELSE [l EXCEPT !.retval = 0, !.stb = stb]

(* atomic_xchg(&file_data->srq_asserted, 0) *)
TakeSrqAll(fds, h) == [g \in Handles |-> [fds[g] EXCEPT !.srq_asserted = 0]]

TakeSrq(fds, h) == [fds EXCEPT ![h].srq_asserted = 0]

(* atomic_set(&data->iin_data_valid, 0) *)
ClearDataValidSkip(d) == d

ClearDataValid(d) == [d EXCEPT !.iin_data_valid = 0]

(* usbtmc488_ioctl_read_stb up to its first blocking call: the SRQ fast    *)
(* path under dev_lock, or the READ_STATUS_BYTE control request            *)
BeginReadStb(t) ==
    /\ Ioctl(t, "READ_STB")
    /\ LET h == op[t].h IN
       IF file_data[h].srq_asserted # 0
       THEN /\ file_data' = TakeSrq(file_data, h)
            /\ Goes(t, [pc |-> "exit",
                        l |-> PutStb(Entry(t), op[t], file_data[h].srq_byte)])
            /\ UNCHANGED data
       ELSE /\ data' = ClearDataValid(data)
            /\ Goes(t, [pc |-> "stb_ctrl",
                        l |-> [Entry(t) EXCEPT !.wValue = data.iin_bTag]])
            /\ UNCHANGED file_data
    /\ UNCHANGED <<file_list, io_mutex, op, dpc, nops>>

(* usb_control_msg(READ_STATUS_BYTE) has returned *)
StbCtrlDone(t) ==
    /\ pc[t] = "stb_ctrl"
    /\ \E rv \in TransportErrors \cup {3}, st \in Statuses, b2 \in StbBytes :
          LET l == [loc[t] EXCEPT !.retval = rv,
                                  !.ctrl2 = IF rv < 0 THEN @ ELSE b2] IN
          IF rv < 0
          THEN data' = StbExit(data) /\ Goes(t, [pc |-> "exit", l |-> l])
          ELSE IF st # "SUCCESS"
          THEN /\ data' = StbExit(data)
               /\ Goes(t, [pc |-> "exit", l |-> [l EXCEPT !.retval = 0 - EIO]])
          ELSE IF data.iin_ep_present
          THEN UNCHANGED data /\ Goes(t, [pc |-> "stb_wait", l |-> l])
          ELSE /\ data' = StbExit(data)
               /\ Goes(t, [pc |-> "exit", l |-> PutStb(l, op[t], b2)])
    /\ UNCHANGED <<file_data, file_list, io_mutex, op, dpc, nops>>

(* wait_event_interruptible_timeout returns > 0: iin_data_valid is set *)
StbWaitDone(t) ==
    /\ pc[t] = "stb_wait"
    /\ data.iin_data_valid # 0
    /\ data' = StbExit(data)
    /\ Goes(t, [pc |-> "exit", l |-> PutStb(loc[t], op[t], data.bNotify2)])
    /\ UNCHANGED <<file_data, file_list, io_mutex, op, dpc, nops>>

(* it returns 0 (timeout) or a negative value (signal) with the flag clear *)
StbWaitFail(t) ==
    /\ pc[t] = "stb_wait"
    /\ data.iin_data_valid = 0
    /\ \E rv \in {0 - ETIMEDOUT} \cup WaitInterrupted :
          Goes(t, [pc |-> "exit", l |-> [loc[t] EXCEPT !.retval = rv]])
    /\ data' = StbExit(data)
    /\ UNCHANGED <<file_data, file_list, io_mutex, op, dpc, nops>>

(* -------------------------- interrupt callback ------------------------- *)
SRQ_NOTIFY == 129

(* first byte of the notification by which the device answers the          *)
(* READ_STATUS_BYTE request a thread is waiting on                         *)
AnswerB0 == {128 + loc[t].wValue : t \in {u \in Threads : pc[u] = "stb_wait"}}

(* usbtmc_interrupt with urb->status = 0, up to the exit label *)
NotifyHead(d, fds, list, b0, b1) ==
    IF b0 = SRQ_NOTIFY /\ Len(list) > 0
    THEN [d |-> d,
          fds |-> [fds EXCEPT ![list[1]].srq_byte = b1,
                              ![list[1]].srq_asserted = 1]]
    ELSE [d |-> d, fds |-> fds]

NotifyWakesStb(d, fds, list, b0, b1) ==
    IF b0 >= SRQ_NOTIFY
    THEN [d |-> [d EXCEPT !.bNotify1 = b0, !.bNotify2 = b1,
                          !.iin_data_valid = 1],
          fds |-> IF b0 > SRQ_NOTIFY THEN fds
                  ELSE [h \in Handles |->
                          IF \E i \in 1..Len(list) : list[i] = h
                          THEN [fds[h] EXCEPT !.srq_byte = b1,
                                              !.srq_asserted = 1]
                          ELSE fds[h]]]
    ELSE [d |-> d, fds |-> fds]

Notify(d, fds, list, b0, b1) ==
    IF b0 > SRQ_NOTIFY
    THEN [d |-> [d EXCEPT !.bNotify1 = b0, !.bNotify2 = b1,
                          !.iin_data_valid = 1],
          fds |-> fds]
    ELSE IF b0 = SRQ_NOTIFY
    THEN [d |-> d,
          fds |-> [h \in Handles |->
                     IF \E i \in 1..Len(list) : list[i] = h
                     THEN [fds[h] EXCEPT !.srq_byte = b1, !.srq_asserted = 1]
                     ELSE fds[h]]]
    ELSE [d |-> d, fds |-> fds]

(* usb_submit_urb at the exit label: the URB is in flight again, or the    *)
(* submission failed                                                       *)
Resubmit(d, ok) == [d EXCEPT !.iin_urb = IF ok THEN "submitted" ELSE "failed"]

(* completion with status 0 *)
InterruptData(firsts, bytes) ==
    /\ data.iin_urb = "submitted"
    /\ \E b0 \in firsts, b1 \in bytes, ok \in BOOLEAN :
          LET r == Notify(data, file_data, file_list, b0, b1) IN
          /\ data' = Resubmit([r.d EXCEPT !.iin_status = 0], ok)
          /\ file_data' = r.fds
    /\ UNCHANGED <<file_list, io_mutex, pc, op, loc, dpc, nops>>

(* the statuses of the cases that end in return: -EOVERFLOW falls through  *)
(* into the cases of a terminated URB                                      *)
TerminatedStatuses ==
    {0 - EOVERFLOW, 0 - ECONNRESET, 0 - ENOENT, 0 - ESHUTDOWN, 0 - EILSEQ,
     0 - ETIME, 0 - EPIPE}

(* a status of the default case: -EPROTO *)
OtherStatuses == {0 - 71}

(* completion with -EOVERFLOW, -ECONNRESET, -ENOENT, -ESHUTDOWN, -EILSEQ,  *)
(* -ETIME or -EPIPE: the callback returns without resubmitting             *)
InterruptTerminated ==
    /\ data.iin_urb = "submitted"
    /\ \E st \in TerminatedStatuses :
          data' = [data EXCEPT !.iin_urb = "idle", !.iin_status = st]
    /\ UNCHANGED <<file_data, file_list, io_mutex, pc, op, loc, dpc, nops>>

(* completion with any other status: logged, then the exit label *)
InterruptOther ==
    /\ data.iin_urb = "submitted"
    /\ \E st \in OtherStatuses, ok \in BOOLEAN :
          data' = Resubmit([data EXCEPT !.iin_status = st], ok)
    /\ UNCHANGED <<file_data, file_list, io_mutex, pc, op, loc, dpc, nops>>

(* ------------- the callback and dev_lock, statement by statement -------- *)
(* spin_lock(&data->dev_lock) returns only when no one holds the lock *)
SpinFree == data.dev_lock = "none"

(* a critical section of dev_lock that is taken in one step *)
UnderSpin(A) == SpinFree /\ A

(* what the completion of the interrupt URB waits for before it runs the   *)
(* callback: nothing; usbtmc_interrupt has no mutex_lock                   *)
CallbackGated == io_mutex = NoThread

CallbackRuns == TRUE

(* usbtmc_interrupt with status 0 up to spin_lock: every notification but  *)
(* SRQ is handled to the end; for SRQ kill_fasync is called if data->fasync*)
(* is set, and the handle list is walked later, under dev_lock             *)
IrqStart(firsts, bytes) ==
    /\ data.iin_urb = "submitted"
    /\ data.cb = "none"
    /\ CallbackRuns
    /\ \E b0 \in firsts, b1 \in bytes, ok \in BOOLEAN :
          IF b0 = SRQ_NOTIFY
          THEN /\ data' = [data EXCEPT
                              !.iin_status = 0, !.cb = "spin", !.cb_stb = b1,
                              !.sigio = IF data.fasync
                                        THEN {h \in Handles :
                                                \E i \in 1..Len(file_list) :
                                                   file_list[i] = h}
                                        ELSE @]
               /\ file_data' = file_data
          ELSE LET r == Notify(data, file_data, file_list, b0, b1) IN
               /\ data' = Resubmit([r.d EXCEPT !.iin_status = 0], ok)
               /\ file_data' = r.fds
    /\ UNCHANGED <<file_list, io_mutex, pc, op, loc, dpc, nops>>

(* spin_lock(&data->dev_lock) in the callback *)
IrqSpinLock ==
    /\ data.cb = "spin"
    /\ SpinFree
    /\ data' = [data EXCEPT !.dev_lock = "irq", !.cb = "list"]
    /\ UNCHANGED <<file_data, file_list, io_mutex, pc, op, loc, dpc, nops>>

(* list_for_each under the lock, spin_unlock, wake_up_interruptible_all,   *)
(* and usb_submit_urb at the exit label                                    *)
IrqSrqStore ==
    /\ data.cb = "list"
    /\ \E ok \in BOOLEAN :
          LET r == Notify(data, file_data, file_list, SRQ_NOTIFY, data.cb_stb) IN
          /\ data' = Resubmit([r.d EXCEPT !.dev_lock = "none", !.cb = "none",
                                          !.cb_stb = 0], ok)
          /\ file_data' = r.fds
    /\ UNCHANGED <<file_list, io_mutex, pc, op, loc, dpc, nops>>

(* spin_lock_irq(&data->dev_lock) in usbtmc488_ioctl_read_stb *)
StbSpinLock(t) ==
    /\ Ioctl(t, "READ_STB")
    /\ SpinFree
    /\ data' = [data EXCEPT !.dev_lock = t]
    /\ Goes(t, [pc |-> "stb_spin", l |-> Entry(t)])
    /\ UNCHANGED <<file_data, file_list, io_mutex, op, dpc, nops>>

(* atomic_xchg under the lock and spin_unlock_irq, then put_user of the    *)
(* SRQ status byte, or the READ_STATUS_BYTE control request                *)
StbSpinBody(t) ==
    /\ pc[t] = "stb_spin"
    /\ LET h == op[t].h IN
       IF file_data[h].srq_asserted # 0
       THEN /\ file_data' = TakeSrq(file_data, h)
            /\ Goes(t, [pc |-> "exit",
                        l |-> PutStb(loc[t], op[t], file_data[h].srq_byte)])
            /\ data' = [data EXCEPT !.dev_lock = "none"]
       ELSE /\ data' = ClearDataValid([data EXCEPT !.dev_lock = "none"])
            /\ Goes(t, [pc |-> "stb_ctrl",
                        l |-> [loc[t] EXCEPT !.wValue = data.iin_bTag]])
            /\ UNCHANGED file_data
    /\ UNCHANGED <<file_list, io_mutex, op, dpc, nops>>

(* usbtmc_fasync: fasync_helper links or unlinks the caller in data->fasync *)
Fasync(h, on) ==
    /\ Usable(h)
    /\ data' = [data EXCEPT !.fasync = on]
    /\ UNCHANGED <<file_data, file_list, io_mutex, pc, op, loc, dpc, nops>>

(* the handler of SIGIO calls poll on its handle h, which was open when    *)
(* the signal was sent                                                     *)
SigPoll(t, h) ==
    /\ h \in data.sigio
    /\ StartCall(t, [PollCall(h) EXCEPT !.sig = TRUE])

(* -------------------------------- sysfs -------------------------------- *)
(* auto_abort_store: the attribute exists until disconnect removes it; the *)
(* value stored is the parsed one, or whatever val holds when sscanf fails *)
AutoAbortStore ==
    /\ dpc = "connected"
    /\ \E v \in BOOLEAN : data' = [data EXCEPT !.auto_abort = v]
    /\ UNCHANGED <<file_data, file_list, io_mutex, pc, op, loc, dpc, nops>>

(* ------------------------------ disconnect ----------------------------- *)
(* usb_deregister_dev and sysfs_remove_group, then mutex_lock is called *)
DiscStart ==
    /\ dpc = "connected"
    /\ dpc' = "lock"
    /\ UNCHANGED <<data, file_data, file_list, io_mutex, pc, op, loc, nops>>

DiscLock ==
    /\ dpc = "lock"
    /\ GateFree
    /\ io_mutex' = "disc"
    /\ dpc' = "locked"
    /\ UNCHANGED <<data, file_data, file_list, pc, op, loc, nops>>

(* where usbtmc_disconnect stands when it writes data->zombie = 1 *)
ZombieFlipEarly == dpc = "lock"

ZombieFlipAt == dpc = "locked"

DiscZombie ==
    /\ ZombieFlipAt
    /\ data' = [data EXCEPT !.zombie = TRUE]
    /\ dpc' = IF dpc = "locked" THEN "zombied" ELSE dpc
    /\ UNCHANGED <<file_data, file_list, io_mutex, pc, op, loc, nops>>

DiscUnlock ==
    /\ dpc = "zombied"
    /\ io_mutex' = NoThread
    /\ dpc' = "free_int"
    /\ UNCHANGED <<data, file_data, file_list, pc, op, loc, nops>>

(* usbtmc_free_int *)
FreeIntNoPut(d) ==
    IF ~d.iin_ep_present \/ d.iin_urb = "none" THEN d
    ELSE [d EXCEPT !.iin_urb = "none"]

FreeInt(d) ==
    IF ~d.iin_ep_present \/ d.iin_urb = "none" THEN d
    ELSE KrefPut([d EXCEPT !.iin_urb = "none"])

DiscFreeInt ==
    /\ dpc = "free_int"
    /\ data' = FreeInt(data)
    /\ dpc' = "put"
    /\ UNCHANGED <<file_data, file_list, io_mutex, pc, op, loc, nops>>

DiscPut ==
    /\ dpc = "put"
    /\ data' = KrefPut(data)
    /\ dpc' = "done"
    /\ UNCHANGED <<file_data, file_list, io_mutex, pc, op, loc, nops>>

(* --------------------------- specifications ---------------------------- *)
Bounded(A, k) == A /\ nops < k /\ nops' = nops + 1
Counted(A) == Bounded(A, MaxOps)
Free(A) == A /\ UNCHANGED nops

Gate(t) == Lock(t) \/ Unlock(t)
OpenSteps(t) == \E h \in Handles : StartOpen(t, h) \/ BeginOpen(t)
ReleaseSteps(t) ==
    \E h \in Handles : StartRelease(t, h) \/ BeginRelease(t) \/ RelPut(t)
ReadSteps(t) == BeginRead(t) \/ RdSendDone(t) \/ RdBulkInDone(t)
WriteSteps(t) == BeginWrite(t) \/ WrBulkOutDone(t)
TriggerSteps(t) == BeginTrigger(t) \/ TrgSendDone(t)
StbSteps(t) ==
    BeginReadStb(t) \/ StbCtrlDone(t) \/ StbWaitDone(t) \/ StbWaitFail(t)
AbortInSteps(t) ==
    AbiInitDone(t) \/ AbiDrain1Done(t) \/ AbiCheckDone(t) \/ AbiDrain2Done(t)
AbortOutSteps(t) == AboInitDone(t) \/ AboCheckDone(t) \/ AboHaltDone(t)
ClearSteps(t) ==
    ClrInitDone(t) \/ ClrCheckDone(t) \/ ClrDrainDone(t) \/ ClrHaltDone(t)

Disconnect ==
    DiscStart \/ DiscLock \/ DiscZombie \/ DiscUnlock \/ DiscFreeInt \/ DiscPut

(* Spec: two threads, two handles of the device and a hot unplug; MaxOps  *)
(* calls of read, write and ioctl.  The device answers a READ_STATUS_BYTE *)
(* request with a notification that carries the request's tag, or not at  *)
(* all.                                                                    *)
SpecCalls ==
    UNION { {ReadCall(h, 0, 0), ReadCall(h, 8, 8), WriteCall(h, 1, 1),
             WriteCall(h, 5000, 5000),
             IoctlCall(h, "TRIGGER", 0, 0),
             IoctlCall(h, "SET_TIMEOUT", USBTMC_MIN_TIMEOUT, 4),
             IoctlCall(h, "READ_STB", 0, 1)} : h \in Handles }

Next ==
    \/ \E t \in Threads :
          \/ Counted(StartOp(t, SpecCalls))
          \/ OpenSteps(t)
          \/ ReleaseSteps(t)
          \/ Gate(t)
          \/ BeginZombie(t)
          \/ ReadSteps(t) \/ WriteSteps(t) \/ TriggerSteps(t)
          \/ BeginSetTimeout(t)
          \/ StbSteps(t)
    \/ Disconnect
    \/ InterruptData(AnswerB0, {64})

Spec == Init /\ [][Next]_vars

(* ------------------- the IO gate and the zombie flag -------------------- *)
(* a thread is inside the body of read, write or ioctl: it has taken the   *)
(* gate and not yet released it                                           *)
InBody(t) ==
    /\ op[t].kind \in {"read", "write", "ioctl"}
    /\ pc[t] \notin {"idle", "lock"}

(* the pcs at which a bulk or control transfer is in flight *)
XferPcs ==
    {"rd_send", "rd_bulk_in", "wr_bulk_out", "trg_send", "stb_ctrl",
     "abi_init", "abi_drain1", "abi_check", "abi_drain2",
     "abo_init", "abo_check", "abo_halt",
     "clr_init", "clr_check", "clr_drain", "clr_halt"}

(* the device state that C1 lists *)
DeviceState(d) ==
    <<d.bTag, d.bTag_last_write, d.bTag_last_read, d.iin_bTag, d.timeout,
      d.TermChar, d.TermCharEnabled, d.auto_abort, d.eom_val>>

(* C1: once zombie is set it stays set; while it is set no read, write or  *)
(* ioctl is inside a transfer or past its zombie check, the listed device  *)
(* state does not change, and every read, write or ioctl that was called   *)
(* with zombie set reaches its exit with -ENODEV.                          *)
C1_ZombieRefuses ==
    /\ [](\A t \in Threads :
            /\ (data.zombie /\ InBody(t)) => pc[t] \in {"locked", "exit"}
            /\ (InBody(t) /\ pc[t] = "exit" /\ op[t].z0) =>
                  /\ loc[t].retval = 0 - ENODEV
                  /\ loc[t].frames = 0)
    /\ [][data.zombie =>
            /\ data'.zombie
            /\ DeviceState(data') = DeviceState(data)
            /\ \A t \in Threads : pc'[t] \notin XferPcs \cup {"stb_wait"}]_vars

C1_Witness ==
    \E t \in Threads, u \in Threads :
       /\ t # u
       /\ data.zombie
       /\ pc[t] = "exit" /\ op[t].kind = "write" /\ op[t].z0
       /\ loc[t].retval = 0 - ENODEV
       /\ pc[u] = "lock" /\ op[u].kind = "ioctl" /\ op[u].z0

(* C2: every thread inside the body of read, write or ioctl owns the gate, *)
(* so no two are inside a body at once, on the same or on different        *)
(* handles, and at most one transfer is in flight.                         *)
C2_OneBody ==
    /\ \A t \in Threads : InBody(t) => io_mutex = t
    /\ \A t, u \in Threads : (InBody(t) /\ InBody(u)) => t = u
    /\ Cardinality({t \in Threads : pc[t] \in XferPcs}) <= 1

C2_Witness ==
    \E t \in Threads, u \in Threads :
       /\ pc[t] = "rd_bulk_in" /\ op[t].h = "h1"
       /\ pc[u] = "lock" /\ op[u].kind = "write" /\ op[u].h = "h2"

(* C3: zombie goes from false to true only in a step of disconnect that    *)
(* holds the gate, with no read, write or ioctl inside its body; and       *)
(* disconnect takes the gate only when no one holds it.                    *)
C3_FlipUnderGate ==
    /\ [][(~data.zombie /\ data'.zombie) =>
            /\ io_mutex = "disc"
            /\ \A t \in Threads : ~InBody(t)]_vars
    /\ [][(dpc = "lock" /\ dpc' = "locked") =>
            \A t \in Threads : ~InBody(t)]_vars

C3_Witness ==
    \E t \in Threads :
       /\ dpc = "zombied" /\ data.zombie /\ io_mutex = "disc"
       /\ pc[t] = "lock" /\ op[t].kind = "read" /\ ~op[t].z0
       /\ nops = MaxOps

(* ------------------------------ bulk-out tags --------------------------- *)
(* SpecTag: one thread on one handle writes, triggers, sends read requests *)
(* (reads of no byte) and sets the EOM bit without bound, so that bTag     *)
(* goes round its cycle.                                                   *)
TagCalls ==
    {WriteCall("h1", 0, 0), WriteCall("h1", 1, 1), WriteCall("h1", 5000, 5000),
     WriteCall("h1", 5000, io_buffer_size - USBTMC_HEADER_SIZE),
     IoctlCall("h1", "TRIGGER", 0, 0),
     ReadCall("h1", 0, 0)}
    \cup IoctlCalls({"h1"}, {"EOM_ENABLE"})

NextTag ==
    \E t \in {"u1"} :
       \/ Free(StartOp(t, TagCalls))
       \/ StartOpen(t, "h1") \/ BeginOpen(t)
       \/ Gate(t)
       \/ BeginRead(t) \/ RdSendDone(t)
       \/ WriteSteps(t) \/ TriggerSteps(t)
       \/ BeginEomEnable(t)

SpecTag == Init /\ [][NextTag]_vars

(* the pcs at which a frame is in flight on bulk-out *)
BulkOutPcs == {"rd_send", "wr_bulk_out", "trg_send"}

(* C4: bTag is never 0 and stays in 1..255; the header of every frame on   *)
(* bulk-out has byte 1 in 1..255 and byte 2 = 255 - byte 1.                *)
C4_TagNeverZero ==
    /\ data.bTag \in 1..255
    /\ \A t \in Threads :
          pc[t] \in BulkOutPcs =>
             /\ loc[t].buffer.bTag \in 1..255
             /\ loc[t].buffer.bTagInv = 255 - loc[t].buffer.bTag

C4_Witness ==
    \E t \in Threads :
       /\ pc[t] = "wr_bulk_out"
       /\ data.bTag_last_write = 255
       /\ loc[t].buffer.bTag = 1 /\ loc[t].buffer.bTagInv = 254

(* t advanced by k steps in the cycle 1, 2, ..., 255, 1 *)
CycleAdvance(t, k) == ((t - 1 + k) % 255) + 1

(* number of DEV_DEP_MSG_OUT frames that carry count bytes *)
Chunks(count) ==
    (count + io_buffer_size - USBTMC_HEADER_SIZE - 1)
        \div (io_buffer_size - USBTMC_HEADER_SIZE)

(* a write or trigger has reached its exit with success *)
SentOk(t) ==
    /\ pc[t] = "exit"
    /\ \/ op[t].kind = "write"
       \/ op[t].kind = "ioctl" /\ op[t].cmd = "TRIGGER"
    /\ loc[t].retval >= 0

(* C5, as the code has it: a successful trigger advances bTag by one step  *)
(* of the cycle 1..255, a successful write of count bytes by one step per  *)
(* frame it sent, ceil(count / (io_buffer_size - 12)) of them; operations  *)
(* that follow one another compose.                                        *)
C5_AdvancePerFrame ==
    \A t \in Threads :
       SentOk(t) =>
          /\ loc[t].frames = IF op[t].kind = "write" THEN Chunks(op[t].count)
                             ELSE 1
          /\ data.bTag = CycleAdvance(loc[t].tag0, loc[t].frames)

C5_Witness ==
    \E t \in Threads :
       /\ SentOk(t) /\ op[t].kind = "write" /\ op[t].count = 5000
       /\ loc[t].tag0 = 254 /\ data.bTag = 2

(* C5 as stated: each successful write or trigger advances bTag by one     *)
(* step, so N of them advance it by N.                                     *)
C5_AdvancePerOperation ==
    \A t \in Threads :
       SentOk(t) => data.bTag = CycleAdvance(loc[t].tag0, 1)

(* C7: when a write that put at least one frame on bulk-out reaches its    *)
(* exit, with success or with an error, bTag_last_write is the bTag of the *)
(* header of the last frame and bTag is the next value of the cycle.       *)
C7_LastWrite ==
    \A t \in Threads :
       (pc[t] = "exit" /\ op[t].kind = "write" /\ loc[t].frames >= 1) =>
          /\ data.bTag_last_write = loc[t].lasttag
          /\ data.bTag = CycleAdvance(loc[t].lasttag, 1)

C7_Witness ==
    \E t \in Threads :
       /\ pc[t] = "exit" /\ op[t].kind = "write" /\ loc[t].frames = 2
       /\ loc[t].retval < 0
       /\ loc[t].lasttag = 255 /\ data.bTag_last_write = 255 /\ data.bTag = 1

(* ------------------------------ interrupt tag --------------------------- *)
(* SpecStb: one thread on one handle calls READ_STB without bound, so that *)
(* iin_bTag goes round its cycle.  The device raises SRQ at any time; it   *)
(* sends no other notification, so with an interrupt endpoint the wait for *)
(* the answer times out or is interrupted, and without one the status byte *)
(* comes in the control response.                                          *)
StbCalls == IoctlCalls({"h1"}, {"READ_STB"})

NextStb ==
    \/ \E t \in {"u1"} :
          \/ Free(StartOp(t, StbCalls))
          \/ StartOpen(t, "h1") \/ BeginOpen(t)
          \/ Gate(t)
          \/ BeginReadStb(t) \/ StbCtrlDone(t) \/ StbWaitFail(t)
    \/ InterruptData({SRQ_NOTIFY}, {64})
    \/ InterruptTerminated \/ InterruptOther

SpecStb == Init /\ [][NextStb]_vars

(* a READ_STB has reached its exit after it issued READ_STATUS_BYTE with   *)
(* wValue = iin_bTag (the SRQ fast path issues nothing)                    *)
StbIssued(t) ==
    /\ pc[t] = "exit" /\ op[t].kind = "ioctl" /\ op[t].cmd = "READ_STB"
    /\ loc[t].wValue # 0

(* C8: iin_bTag is 2 after probe and stays in 2..127; a READ_STB that      *)
(* issued the control request leaves it one higher than the tag it sent,   *)
(* or at 2 when it sent 127, whatever the request's outcome.               *)
C8_IinTagRange ==
    /\ data.iin_bTag = 2
    /\ [](/\ data.iin_bTag \in 2..127
          /\ \A t \in Threads :
                StbIssued(t) =>
                   data.iin_bTag = IF loc[t].wValue = 127 THEN 2
                                   ELSE loc[t].wValue + 1)
    /\ [][data.iin_bTag' # data.iin_bTag =>
            \E t \in Threads : pc[t] \in {"stb_ctrl", "stb_wait"}
                               /\ pc'[t] = "exit"]_vars

C8_Witness ==
    \E t \in Threads :
       /\ StbIssued(t) /\ loc[t].wValue = 127 /\ data.iin_bTag = 2
       /\ loc[t].retval = 0 - ETIMEDOUT

(* ------------------------------ read engine ----------------------------- *)
(* SpecRead: one thread on one handle makes MaxReadOps calls: reads of     *)
(* every size, a one-byte write, ABORT_BULK_IN and ABORT_BULK_OUT;         *)
(* auto_abort is switched through sysfs between the calls.                 *)
ReadEngineCalls ==
    {ReadCall("h1", 0, 0), ReadCall("h1", 8, 8), ReadCall("h1", 8, 4),
     ReadCall("h1", 4096, 4096),
     WriteCall("h1", 1, 1)}
    \cup IoctlCalls({"h1"}, {"ABORT_BULK_IN", "ABORT_BULK_OUT"})

Quiet == \A t \in Threads : pc[t] = "idle"

NextRead ==
    \/ \E t \in {"u1"} :
          \/ Bounded(StartOp(t, ReadEngineCalls), MaxReadOps)
          \/ StartOpen(t, "h1") \/ BeginOpen(t)
          \/ Gate(t)
          \/ ReadSteps(t) \/ WriteSteps(t)
          \/ BeginAbortBulkIn(t) \/ BeginAbortBulkOut(t)
          \/ AbortInSteps(t) \/ AbortOutSteps(t)
    \/ AutoAbortStore /\ Quiet

SpecRead == Init /\ [][NextRead]_vars

(* a read has reached its exit after its request went out on bulk-out *)
ReadDone(t) == pc[t] = "exit" /\ op[t].kind = "read" /\ loc[t].frames = 1

(* C6 as stated: after a read, bTag_last_read is the bTag the read's       *)
(* request carried, and so is the wValue of the ABORT_BULK_IN that a       *)
(* faulted read runs.                                                      *)
C6_LastReadIsRequestTag ==
    \A t \in Threads :
       /\ ReadDone(t) => data.bTag_last_read = loc[t].lasttag
       /\ (op[t].kind = "read" /\ pc[t] = "abi_init") =>
             loc[t].wValue = loc[t].lasttag

(* a read of 8 bytes returned them all and left in bTag_last_read the tag  *)
(* that follows the one its request carried                                *)
C6_Witness ==
    \E t \in Threads :
       /\ ReadDone(t) /\ op[t].count = 8 /\ loc[t].retval = 8
       /\ loc[t].lasttag = 1
       /\ data.bTag_last_read = 2

(* a read has reached its exit with a count of bytes, after it accepted a  *)
(* reply header                                                            *)
ReadOk(t) ==
    /\ ReadDone(t) /\ loc[t].retval >= 0
    /\ loc[t].fault = "none" /\ loc[t].nchar0 >= 0

(* C9 as stated: a successful read returns at most count and at most       *)
(* n_characters bytes, they are the leading payload bytes in order, and no *)
(* bulk-in is issued once n_characters bytes have been copied.             *)
C9_LeadingPayload ==
    \A t \in Threads :
       ReadOk(t) =>
          /\ loc[t].retval <= op[t].count
          /\ loc[t].retval <= loc[t].nchar0
          /\ loc[t].ordered
          /\ ~loc[t].late

(* a read returned bytes that are not the leading bytes of the payload *)
C9_Witness ==
    \E t \in Threads :
       /\ ReadOk(t) /\ loc[t].retval > 0 /\ ~loc[t].ordered

(* a read has reached its exit after a fault in its first bulk-in reply *)
FirstReplyFault(t) ==
    ReadDone(t) /\ loc[t].fault # "none" /\ loc[t].ahead < 0

(* C10 as stated: a read whose first reply is short, has the wrong MsgID   *)
(* or bTag, or declares more than count bytes returns -EPERM, has copied   *)
(* nothing, leaves bTag_last_write as its request set it, and has run      *)
(* ABORT_BULK_IN when auto_abort is set.                                   *)
C10_FaultIsPerm ==
    \A t \in Threads :
       FirstReplyFault(t) =>
          /\ loc[t].retval = 0 - EPERM
          /\ loc[t].done = 0
          /\ data.bTag_last_write = loc[t].lasttag
          /\ data.auto_abort => loc[t].aborted = "in"

(* a read whose first reply had MsgID 1 returned 0 *)
C10_Witness ==
    \E t \in Threads :
       /\ FirstReplyFault(t) /\ loc[t].fault = "msgid" /\ op[t].count = 8
       /\ loc[t].retval = 0 /\ ~data.auto_abort

(* C11 as stated: a read returns 0 only when the device's reply was a     *)
(* valid header that declares no byte (n_characters = 0) with the EOM bit  *)
(* set: not after a fault, not without EOM, not for a request of 0 bytes.  *)
C11_ZeroMeansEmptyEom ==
    \A t \in Threads :
       (pc[t] = "exit" /\ op[t].kind = "read" /\ loc[t].retval = 0) =>
          /\ op[t].count > 0
          /\ loc[t].fault = "none"
          /\ loc[t].nchar0 = 0
          /\ loc[t].eom0 = 1

(* a read of 8 bytes returned 0 for a valid header that declares no byte   *)
(* and has the EOM bit clear                                               *)
C11_Witness ==
    \E t \in Threads :
       /\ ReadDone(t) /\ op[t].count = 8 /\ loc[t].retval = 0
       /\ loc[t].fault = "none" /\ loc[t].nchar0 = 0 /\ loc[t].eom0 = 0

(* ------------------------------ write engine ---------------------------- *)
(* a write has passed the zombie check and reached its exit *)
WriteDone(t) == pc[t] = "exit" /\ op[t].kind = "write" /\ ~data.zombie

(* C12: a write returns count or an error, never a value between 0 and     *)
(* count; it returns count exactly when it built a frame for every chunk   *)
(* and bulk-out took every byte of each.                                   *)
C12_NoShortWrite ==
    \A t \in Threads :
       WriteDone(t) =>
          /\ loc[t].retval = op[t].count \/ loc[t].retval < 0
          /\ loc[t].retval = op[t].count <=>
                /\ loc[t].frames = Chunks(op[t].count)
                /\ loc[t].acked = loc[t].frames

(* a write of 5000 bytes fails on its third frame, after 4072 bytes went   *)
(* out, and returns the error                                              *)
C12_Witness ==
    \E t \in Threads :
       /\ WriteDone(t) /\ op[t].count = 5000
       /\ loc[t].frames = 3 /\ loc[t].acked = 2 /\ loc[t].done = 4072
       /\ loc[t].retval = 0 - ETIMEDOUT

(* number of payload bytes in the first k frames: done before frame k + 1 *)
RECURSIVE PayloadBefore(_, _)
PayloadBefore(frames, k) ==
    IF k = 0 THEN 0 ELSE PayloadBefore(frames, k - 1) + frames[k].plen

(* C13: a successful write of count > 0 bytes has built                    *)
(* ceil(count / (io_buffer_size - 12)) DEV_DEP_MSG_OUT frames; the payload *)
(* of each is the user data that follows the payloads before it, and they  *)
(* add up to count; transferSize is the payload length; the attribute byte *)
(* is 0 but for the last frame, where it is eom_val; the length handed to  *)
(* bulk-out is 12 + payload rounded up to a multiple of 4, the added bytes *)
(* being zero.                                                             *)
C13_WriteFrames ==
    \A t \in Threads :
       (WriteDone(t) /\ loc[t].retval = op[t].count /\ op[t].count > 0) =>
          LET f == loc[t].sent
              n == Len(f)
          IN  /\ n = Chunks(op[t].count)
              /\ PayloadBefore(f, n) = op[t].count
              /\ \A i \in 1..n :
                    /\ f[i].hdr.MsgID = 1
                    /\ f[i].from = PayloadBefore(f, i - 1)
                    /\ f[i].hdr.size = f[i].plen
                    /\ f[i].plen <= io_buffer_size - USBTMC_HEADER_SIZE
                    /\ f[i].hdr.attr = IF i < n THEN 0 ELSE data.eom_val
                    /\ f[i].len = RoundUp4(USBTMC_HEADER_SIZE + f[i].plen)
                    /\ f[i].len % 4 = 0
                    /\ f[i].pad = 0

(* a write of 5000 bytes with the EOM bit disabled has built its three     *)
(* frames, the last one with attribute byte 0                              *)
C13_Witness ==
    \E t \in Threads :
       /\ WriteDone(t) /\ loc[t].retval = op[t].count
       /\ op[t].count = 5000 /\ data.eom_val = 0
       /\ Len(loc[t].sent) = 3 /\ loc[t].sent[3].hdr.attr = 0

(* a write of 5000 bytes with the EOM bit enabled has succeeded *)
Wrote5000(t) ==
    /\ WriteDone(t) /\ op[t].count = 5000 /\ loc[t].retval = 5000
    /\ data.eom_val = 1

(* payload lengths, attribute bytes and bTag advance of that write *)
Split5000(t) ==
    LET f == loc[t].sent IN
    /\ Len(f) = 3
    /\ <<f[1].plen, f[2].plen, f[3].plen>> = <<2036, 2036, 928>>
    /\ <<f[1].hdr.attr, f[2].hdr.attr, f[3].hdr.attr>> = <<0, 0, 1>>
    /\ data.bTag = CycleAdvance(loc[t].tag0, 3)

(* C14, as the code has it: a write of 5000 bytes with the IO buffer of    *)
(* 2048 and the EOM bit enabled builds three frames with payloads of 2036, *)
(* 2036 and 928 bytes and EOM flags 0, 0, 1, and advances bTag three       *)
(* times; the last frame is 940 bytes, 12 + 928 being a multiple of 4.     *)
C14_WriteSplit940 ==
    \A t \in Threads :
       Wrote5000(t) => Split5000(t) /\ loc[t].sent[3].len = 940

C14_Witness ==
    \E t \in Threads :
       /\ Wrote5000(t) /\ loc[t].tag0 = 1 /\ data.bTag = 4
       /\ loc[t].sent[3].len = 940

(* C14 as stated: the same, with the last frame padded to 960 bytes *)
C14_WriteSplit960 ==
    \A t \in Threads :
       Wrote5000(t) => Split5000(t) /\ loc[t].sent[3].len = 960

(* --------------------------- SRQ and status byte ------------------------ *)
(* SpecIrq: one thread opens and closes the two handles and makes          *)
(* MaxStbOps READ_STB calls on them, on a device with or without the       *)
(* USB488 capabilities; the device sends SRQ, answers to READ_STATUS_BYTE  *)
(* (to the request in flight, or with tag 2 at any time) and a             *)
(* notification with an invalid first byte.                                *)
IrqCalls == IoctlCalls(Handles, {"READ_STB"})

IrqFirsts == {1, SRQ_NOTIFY, SRQ_NOTIFY + 1} \cup AnswerB0

NextIrq ==
    \/ \E t \in {"u1"} :
          \/ Bounded(StartOp(t, IrqCalls), MaxStbOps)
          \/ OpenSteps(t)
          \/ ReleaseSteps(t)
          \/ Gate(t)
          \/ StbSteps(t)
    \/ InterruptData(IrqFirsts, StbBytes)

SpecIrq == InitCaps /\ [][NextIrq]_vars

(* the handle is linked in data->file_list *)
InList(h) == \E i \in 1..Len(file_list) : file_list[i] = h

(* a READ_STB has taken the gate and passed the zombie check *)
StbCall(t) ==
    /\ pc[t] = "locked" /\ op[t].kind = "ioctl" /\ op[t].cmd = "READ_STB"
    /\ ~data.zombie

(* C15: the callback of an SRQ notification [0x81, b1] stores b1 in        *)
(* srq_byte and sets srq_asserted on every handle linked in the handle     *)
(* list, whatever its READ_STB is doing, and leaves the other handles as   *)
(* they are; a handle starts with the flag clear when it is opened; a set  *)
(* flag is cleared only by a READ_STB on that handle (or goes with the     *)
(* handle when it is released).                                            *)
C15_SrqOnOpenHandles ==
    /\ [][\A b1 \in StbBytes :
            InterruptData({SRQ_NOTIFY}, {b1}) =>
               \A h \in Handles :
                  IF InList(h)
                  THEN /\ file_data'[h].srq_asserted = 1
                       /\ file_data'[h].srq_byte = b1
                  ELSE file_data'[h] = file_data[h]]_vars
    /\ [][\A h \in Handles :
            (~file_data[h].open /\ file_data'[h].open) =>
               file_data'[h].srq_asserted = 0]_vars
    /\ [][\A h \in Handles :
            (file_data[h].srq_asserted = 1 /\ file_data'[h].srq_asserted = 0) =>
               \/ \E t \in Threads :
                     StbCall(t) /\ op[t].h = h /\ pc'[t] = "exit"
               \/ ~file_data'[h].open]_vars

(* SRQ has come while a READ_STB on h1 waits for its answer: the flag is   *)
(* set on h1 and on h2, and not on a handle opened afterwards              *)
C15_Witness ==
    \E t \in Threads :
       /\ pc[t] = "stb_wait" /\ op[t].h = "h1"
       /\ file_data["h1"].srq_asserted = 1 /\ file_data["h1"].srq_byte = 66
       /\ file_data["h2"].srq_asserted = 1 /\ file_data["h2"].srq_byte = 66
       /\ file_list = <<"h2", "h1">>

(* C16: a READ_STB on a handle whose srq_asserted is set goes to its exit  *)
(* without a control request, returns the handle's srq_byte, clears the    *)
(* flag of that handle and changes no other handle, nor iin_bTag, nor      *)
(* data-valid; a READ_STB on a handle whose flag is clear issues           *)
(* READ_STATUS_BYTE with wValue = iin_bTag.                                *)
C16_SrqFastPath ==
    [][\A t \in Threads :
         (StbCall(t) /\ pc'[t] # "locked") =>
            LET h == op[t].h IN
            IF file_data[h].srq_asserted # 0
            THEN /\ pc'[t] = "exit"
                 /\ loc'[t].wValue = 0
                 /\ op[t].uvalid >= 1 =>
                       /\ loc'[t].retval = 0
                       /\ loc'[t].stb = file_data[h].srq_byte
                 /\ file_data'[h].srq_asserted = 0
                 /\ \A g \in Handles \ {h} : file_data'[g] = file_data[g]
                 /\ data'.iin_bTag = data.iin_bTag
                 /\ data'.iin_data_valid = data.iin_data_valid
            ELSE /\ pc'[t] = "stb_ctrl"
                 /\ loc'[t].wValue = data.iin_bTag
                 /\ file_data' = file_data]_vars

(* the second READ_STB on h1 after an SRQ has issued its control request,  *)
(* the first one having consumed h1's flag; h2's flag is still set         *)
C16_Witness ==
    \E t \in Threads :
       /\ pc[t] = "stb_ctrl" /\ op[t].h = "h1" /\ nops = 2
       /\ data.iin_bTag = 2
       /\ file_data["h1"].srq_asserted = 0 /\ file_data["h1"].srq_byte = 66
       /\ file_data["h2"].srq_asserted = 1 /\ file_data["h2"].srq_byte = 66

(* C19: a READ_STB clears data-valid before it issues its request, and    *)
(* only a notification with first byte above 0x81 sets it; with an         *)
(* interrupt endpoint the call succeeds only from its wait with data-valid *)
(* set, and stores bNotify2; when it leaves the wait with data-valid clear *)
(* it fails with -ETIMEDOUT, or with the value of the interrupted wait;    *)
(* without an interrupt endpoint it stores buffer[2] of the control reply. *)
C19_StbAnswer ==
    /\ [][\A t \in Threads :
            (StbCall(t) /\ pc'[t] = "stb_ctrl") => data'.iin_data_valid = 0]_vars
    /\ [][(data.iin_data_valid = 0 /\ data'.iin_data_valid # 0) =>
            /\ data'.bNotify1 > SRQ_NOTIFY
            /\ pc' = pc]_vars
    /\ [][\A t \in Threads :
            (pc[t] \in {"stb_ctrl", "stb_wait"} /\ pc'[t] = "exit") =>
               IF data.iin_ep_present
               THEN /\ loc'[t].retval = 0 =>
                          /\ pc[t] = "stb_wait"
                          /\ data.iin_data_valid # 0
                          /\ loc'[t].stb = data.bNotify2
                    /\ (pc[t] = "stb_wait" /\ data.iin_data_valid = 0) =>
                          loc'[t].retval \in {0 - ETIMEDOUT} \cup WaitInterrupted
               ELSE loc'[t].retval = 0 =>
                          /\ pc[t] = "stb_ctrl"
                          /\ loc'[t].stb = loc'[t].ctrl2]_vars

(* a READ_STB with tag 2 has returned the byte of the notification         *)
(* [0x82, 66] that came after its request                                  *)
C19_Witness ==
    \E t \in Threads :
       /\ pc[t] = "exit" /\ op[t].cmd = "READ_STB" /\ data.iin_ep_present
       /\ loc[t].wValue = 2 /\ loc[t].retval = 0
       /\ data.bNotify1 = SRQ_NOTIFY + 1 /\ data.bNotify2 = 66
       /\ loc[t].stb = 66

(* C17 as stated: on a device whose usb488_caps has bit 0 clear a READ_STB *)
(* issues no control request, stores no status byte and returns an error.  *)
C17_StbNeedsSimple ==
    \A t \in Threads :
       (op[t].kind = "ioctl" /\ op[t].cmd = "READ_STB"
          /\ data.usb488_caps % 2 = 0) =>
          /\ pc[t] \notin {"stb_ctrl", "stb_wait"}
          /\ pc[t] = "exit" =>
                /\ loc[t].retval < 0
                /\ loc[t].wValue = 0
                /\ loc[t].stb = 0 - 1

(* on a device that reports no USB488 capability a READ_STB has issued its *)
(* control request and returned the status byte                            *)
C17_Witness ==
    \E t \in Threads :
       /\ data.usb488_caps = 0
       /\ pc[t] = "exit" /\ op[t].cmd = "READ_STB"
       /\ loc[t].wValue = 2 /\ loc[t].retval = 0 /\ loc[t].stb = 64

(* ------------------- the interrupt URB and the references --------------- *)
(* SpecUrb: two threads open and close the two handles, the interrupt URB  *)
(* completes with a notification or with any other status, and the device  *)
(* is unplugged at any time.                                               *)
NextUrb ==
    \/ \E t \in Threads : OpenSteps(t) \/ ReleaseSteps(t) \/ Gate(t)
    \/ InterruptData({SRQ_NOTIFY}, {64})
    \/ InterruptTerminated \/ InterruptOther
    \/ Disconnect

SpecUrb == Init /\ [][NextUrb]_vars

(* the references on the device record: the one of usbtmc_probe, dropped   *)
(* at the end of usbtmc_disconnect; one per handle from the kref_get of    *)
(* usbtmc_open to the kref_put of usbtmc_release; the one taken for the    *)
(* interrupt URB, held while data->iin_urb is not NULL                     *)
ProbeRef == IF dpc = "done" THEN 0 ELSE 1

HoldsRef(h) ==
    \/ file_data[h].open
    \/ \E t \in Threads : pc[t] # "idle" /\ op[t].kind = "open" /\ op[t].h = h

HandleRefs == Cardinality({h \in Handles : HoldsRef(h)})

IntRef == IF data.iin_urb # "none" THEN 1 ELSE 0

(* C18 as stated: while the interrupt URB exists, after a completion with  *)
(* status 0 or -EOVERFLOW the callback has called usb_submit_urb; after    *)
(* -ECONNRESET, -ENOENT, -ESHUTDOWN, -EILSEQ, -ETIME or -EPIPE it has not, *)
(* and once usbtmc_free_int has run the record no longer counts the        *)
(* interrupt reference.                                                    *)
C18_ResubmitUnlessTerminated ==
    /\ (data.iin_urb # "none" /\ data.iin_status \in {0, 0 - EOVERFLOW}) =>
          data.iin_urb \in {"submitted", "failed"}
    /\ data.iin_status \in TerminatedStatuses \ {0 - EOVERFLOW} =>
          /\ data.iin_urb \in {"idle", "none"}
          /\ dpc \in {"put", "done"} => data.kref = ProbeRef + HandleRefs

(* the URB has completed with -EOVERFLOW on a connected device with an     *)
(* open handle and is not in flight                                        *)
C18_Witness ==
    /\ data.iin_status = 0 - EOVERFLOW /\ data.iin_urb = "idle"
    /\ dpc = "connected" /\ file_list = <<"h1">>

(* C20: the reference count is the sum of the probe reference, one per     *)
(* handle and the interrupt reference; the record is freed exactly when    *)
(* the count is 0, which is after disconnect has finished, with no handle  *)
(* left and the interrupt URB freed.                                       *)
C20_RefCount ==
    /\ data.kref = ProbeRef + HandleRefs + IntRef
    /\ data.freed <=> data.kref = 0
    /\ data.freed =>
          /\ dpc = "done"
          /\ HandleRefs = 0 /\ file_list = <<>>
          /\ data.iin_urb = "none"

(* disconnect has finished with both handles open; h1 is released and the  *)
(* release of h2 is about to drop the last reference                       *)
C20_Witness ==
    \E t \in Threads :
       /\ dpc = "done" /\ ~data.freed /\ data.kref = 1
       /\ pc[t] = "rel_put" /\ op[t].h = "h2"
       /\ ~file_data["h1"].open /\ data.iin_ep_present

(* ------------------------- the termination character -------------------- *)
(* number of read and CONFIG_TERMCHAR calls started in one behaviour of    *)
(* SpecTerm                                                                *)
MaxTermOps == 2

(* SpecTerm: one thread opens the two handles at any time, sets the        *)
(* termination character with CONFIG_TERMCHAR and sends read requests      *)
(* (reads of no byte) on either handle, on a device that supports the      *)
(* termination character or not.                                           *)
TermCalls ==
    {ReadCall(h, 0, 0) : h \in Handles}
    \cup IoctlCalls(Handles, {"CONFIG_TERMCHAR"})

InitTerm ==
    /\ \E c \in {0, 1} :
          data = [ProbeData(FALSE) EXCEPT !.device_capabilities = c]
    /\ file_data = [h \in Handles |-> FD0]
    /\ file_list = <<>>
    /\ io_mutex = NoThread
    /\ pc = [t \in Threads |-> "idle"]
    /\ op = [t \in Threads |-> NoOp]
    /\ loc = [t \in Threads |-> L0]
    /\ dpc = "connected"
    /\ nops = 0

NextTerm ==
    \E t \in {"u1"} :
       \/ Bounded(StartOp(t, TermCalls), MaxTermOps)
       \/ OpenSteps(t)
       \/ Gate(t)
       \/ BeginRead(t) \/ RdSendDone(t)
       \/ BeginConfigTermc(t)

SpecTerm == InitTerm /\ [][NextTerm]_vars

(* C21 as stated: the REQUEST_DEV_DEP_MSG_IN header that a read hands to   *)
(* bulk-out has the device's current TermChar in byte 9 and the device's   *)
(* current TermCharEnabled in bit 1 of byte 8, on whatever handle the read *)
(* is made.                                                                *)
C21_RequestUsesDeviceTermChar ==
    \A t \in Threads :
       pc[t] = "rd_send" =>
          /\ loc[t].buffer.MsgID = 2
          /\ loc[t].buffer.TermChar = data.TermChar
          /\ (loc[t].buffer.attr \div 2) % 2 =
                IF data.TermCharEnabled THEN 1 ELSE 0

(* CONFIG_TERMCHAR has set carriage return, enabled, after h1 was opened;  *)
(* the request of a read on h1 carries line feed, disabled, while h2,      *)
(* opened after the ioctl, has the new values                              *)
C21_Witness ==
    \E t \in Threads :
       /\ pc[t] = "rd_send" /\ op[t].h = "h1"
       /\ data.TermChar = 13 /\ data.TermCharEnabled
       /\ loc[t].buffer.TermChar = 10 /\ loc[t].buffer.attr = 0
       /\ file_data["h2"].open /\ file_data["h2"].TermChar = 13

(* --------------------- transport errors and auto_abort ------------------ *)
(* a read or write has reached its exit after one of its bulk transfers    *)
(* failed                                                                  *)
FaultedIo(t) ==
    /\ pc[t] = "exit" /\ op[t].kind \in {"read", "write"}
    /\ loc[t].xerr < 0

(* C22: a read or write whose bulk transfer failed returns the error of    *)
(* that transfer, whatever the abort sequence it ran has returned; it has  *)
(* run an abort sequence when auto_abort is set, and has issued no abort   *)
(* request when it is not.                                                 *)
C22_AbortKeepsError ==
    \A t \in Threads :
       FaultedIo(t) =>
          /\ loc[t].retval = loc[t].xerr
          /\ IF data.auto_abort
             THEN loc[t].aborted # "none" /\ loc[t].abrv <= 0
             ELSE loc[t].aborted = "none" /\ loc[t].abrv = 1
                  /\ loc[t].wValue = 0

(* a write has failed with a timeout, its ABORT_BULK_OUT has succeeded,    *)
(* and the write returns the timeout                                       *)
C22_Witness ==
    \E t \in Threads :
       /\ FaultedIo(t) /\ op[t].kind = "write" /\ data.auto_abort
       /\ loc[t].xerr = 0 - ETIMEDOUT /\ loc[t].aborted = "out"
       /\ loc[t].abrv = 0
       /\ loc[t].retval = 0 - ETIMEDOUT

(* ------------------------- release of the IO gate ----------------------- *)
(* number of read, write, ioctl and poll calls that thread u1 starts in    *)
(* one behaviour of SpecGate                                               *)
MaxGateOps == 2

(* SpecGate: thread u1 opens and releases h1 and on it reads and writes     *)
(* (with user buffers that are accessible or not), polls and calls the     *)
(* ioctls; thread u2 opens, polls and releases h2; the device is unplugged *)
(* at any time; transfers fail or bring faulty replies, and auto_abort is  *)
(* switched between the calls.                                             *)
GateCalls ==
    {ReadCall("h1", 8, 4),
     WriteCall("h1", 1, 1), WriteCall("h1", 1, 0), PollCall("h1"),
     IoctlCall("h1", "TRIGGER", 0, 0)}
    \cup IoctlCalls({"h1"}, {"SET_TIMEOUT", "READ_STB"})

NextGate ==
    \/ \E t \in {"u1"} :
          \/ Bounded(StartOp(t, GateCalls), MaxGateOps)
          \/ StartOpen(t, "h1") \/ StartRelease(t, "h1")
          \/ BeginZombie(t)
          \/ ReadSteps(t) \/ WriteSteps(t) \/ TriggerSteps(t)
          \/ BeginSetTimeout(t)
          \/ StbSteps(t)
    \/ \E t \in {"u2"} :
          \/ Free(StartOp(t, {PollCall("h2")}))
          \/ StartOpen(t, "h2") \/ StartRelease(t, "h2")
    \/ \E t \in Threads :
          Gate(t) \/ BeginOpen(t) \/ BeginRelease(t) \/ RelPut(t) \/ BeginPoll(t)
    \/ Disconnect
    \/ InterruptData(AnswerB0, {64})

SpecGate == Init /\ [][NextGate]_vars

(* the thread is between the return of mutex_lock and mutex_unlock *)
Holder(t) == pc[t] \notin {"idle", "lock", "rel_put"}

(* usbtmc_disconnect is between its mutex_lock and its mutex_unlock *)
DiscHolds == dpc \in {"locked", "zombied"}

(* C23: the gate is owned exactly by the operation that is between its     *)
(* mutex_lock and its mutex_unlock; every step by which a read, write,     *)
(* ioctl, open, release or poll leaves its exit label, whatever value it   *)
(* returns, and the step by which disconnect leaves its locked section,    *)
(* frees the gate; so the gate is free whenever none of them is inside,    *)
(* and a waiting mutex_lock can then return.                               *)
C23_GateReleased ==
    /\ [](/\ \A t \in Threads : Holder(t) <=> io_mutex = t
          /\ DiscHolds <=> io_mutex = "disc"
          /\ ((\A t \in Threads : ~Holder(t)) /\ ~DiscHolds) => GateFree)
    /\ [][\A t \in Threads :
            (pc[t] = "exit" /\ pc'[t] # "exit") => io_mutex' = NoThread]_vars
    /\ [][(dpc = "zombied" /\ dpc' # "zombied") => io_mutex' = NoThread]_vars

(* u1 has made two calls, one of which put a frame on bulk-out, and has    *)
(* returned; u2 has since taken the gate for a poll while disconnect waits *)
(* for it                                                                  *)
C23_Witness ==
    /\ nops = MaxGateOps /\ pc["u1"] = "idle" /\ data.bTag = 2
    /\ pc["u2"] = "locked" /\ op["u2"].kind = "poll" /\ io_mutex = "u2"
    /\ dpc = "lock"

(* ------------------------- abort and clear sequences -------------------- *)
(* SpecAbort: one thread calls ABORT_BULK_IN, ABORT_BULK_OUT and CLEAR     *)
(* without bound; the device answers every control request with any        *)
(* status, with or without the data flag, and every bulk-in read of a      *)
(* drain with one full packet, a full IO buffer or a short transfer, or    *)
(* the transfer fails.                                                     *)
AbortCalls ==
    {IoctlCall("h1", c, 0, 0) : c \in {"ABORT_BULK_IN", "ABORT_BULK_OUT", "CLEAR"}}

NextAbort ==
    \E t \in {"u1"} :
       \/ Free(StartOp(t, AbortCalls))
       \/ StartOpen(t, "h1") \/ BeginOpen(t)
       \/ Gate(t)
       \/ BeginAbortBulkIn(t) \/ BeginAbortBulkOut(t) \/ BeginClear(t)
       \/ AbortInSteps(t) \/ AbortOutSteps(t) \/ ClearSteps(t)

SpecAbort == Init /\ [][NextAbort]_vars

(* the pcs of the CHECK loops of ABORT_BULK_IN and CLEAR *)
CheckLoopPcs == {"abi_check", "abi_drain2", "clr_check", "clr_drain"}

(* an ABORT_BULK_IN or CLEAR ioctl is inside its sequence *)
InAbortOrClear(t) ==
    /\ op[t].kind = "ioctl" /\ op[t].cmd \in {"ABORT_BULK_IN", "CLEAR"}
    /\ pc[t] \in {"abi_init", "abi_drain1", "clr_init"} \cup CheckLoopPcs

(* C24 as stated: the 100 iterations counted in n bound the transfers of   *)
(* an ABORT_BULK_IN or CLEAR: it makes no bulk-in read beyond the 100th,   *)
(* and it never issues another CHECK request without having used up one    *)
(* of the iterations, as it would have to for PENDING without the data     *)
(* flag to end.                                                            *)
C24_AbortBounded ==
    \A t \in Threads :
       InAbortOrClear(t) =>
          /\ loc[t].n <= USBTMC_MAX_READS_TO_CLEAR_BULK_IN
          /\ ~loc[t].spun

(* a CLEAR has made more than 100 bulk-in reads, each short and each       *)
(* followed by PENDING, and after a PENDING without the data flag it is    *)
(* issuing CHECK_CLEAR_STATUS once more                                    *)
C24_Witness ==
    \E t \in Threads :
       /\ op[t].cmd = "CLEAR" /\ pc[t] = "clr_check"
       /\ loc[t].n > USBTMC_MAX_READS_TO_CLEAR_BULK_IN
       /\ loc[t].st = "PENDING" /\ loc[t].spun /\ loc[t].actual = 64

(* the pcs at which a bulk-in read of a drain loop is in flight, and the   *)
(* CHECK request that follows each loop                                    *)
DrainPcs == {"abi_drain1", "abi_drain2", "clr_drain"}

CheckAfter(p) == IF p = "clr_drain" THEN "clr_check" ELSE "abi_check"

(* the transfer was made of full-size packets only *)
FullOnly(actual) == actual > 0 /\ actual % wMaxPacketSize = 0

(* a drain read of thread t returns without a transport error: when the    *)
(* transfer it brought is Full and fewer than 100 reads have been made the *)
(* loop reads again; when it is Full on the 100th read the call fails with *)
(* -EPERM; otherwise the drain is over and the CHECK request is issued     *)
DrainRule(t, Full(_)) ==
    (/\ pc[t] \in DrainPcs
     /\ loc'[t] # loc[t]
     /\ ~(pc'[t] = "exit" /\ loc'[t].retval \in TransportErrors)) =>
       IF ~Full(loc'[t].actual)
       THEN pc'[t] = CheckAfter(pc[t])
       ELSE IF loc'[t].n < USBTMC_MAX_READS_TO_CLEAR_BULK_IN
       THEN pc'[t] = pc[t]
       ELSE pc'[t] = "exit" /\ loc'[t].retval = 0 - EPERM

(* C25 as stated: a drain of ABORT_BULK_IN or CLEAR reads until a transfer *)
(* ends with a short packet or 100 reads are made, and fails with -EPERM   *)
(* when the last transfer was made of full-size packets only, a transfer   *)
(* that fills the IO buffer with full-size packets included.               *)
C25_DrainUntilShort ==
    [][\A t \in Threads : DrainRule(t, FullOnly)]_vars

(* the first drain of an ABORT_BULK_IN is over after one read that filled  *)
(* the IO buffer with four full packets, and the CHECK request is issued   *)
C25_Witness ==
    \E t \in Threads :
       /\ op[t].cmd = "ABORT_BULK_IN" /\ pc[t] = "abi_check"
       /\ loc[t].actual = io_buffer_size /\ FullOnly(loc[t].actual)
       /\ loc[t].n = 0 /\ loc[t].st = "SUCCESS"

(* thread t is inside an ABORT_BULK_OUT ioctl *)
InAbortOut(t) == op[t].kind = "ioctl" /\ op[t].cmd = "ABORT_BULK_OUT"

(* the call ends with the error of a failed transfer *)
EndsInTransportError(t) ==
    pc'[t] = "exit" /\ loc'[t].retval \in TransportErrors

(* C26: an ABORT_BULK_OUT issues at most 100 CHECK requests (n counts      *)
(* them); an INITIATE status other than SUCCESS ends it with -EPERM; after *)
(* a CHECK it calls clear-halt exactly when the status is SUCCESS, checks  *)
(* again on PENDING before the 100th CHECK, and otherwise (another status, *)
(* or PENDING on the 100th CHECK) fails with -EPERM, without clear-halt in *)
(* any failure; it returns 0 only from a clear-halt that succeeded.        *)
C26_AbortOut ==
    /\ [](\A t \in Threads :
            InAbortOut(t) =>
               /\ pc[t] = "abo_check" =>
                     loc[t].n < USBTMC_MAX_READS_TO_CLEAR_BULK_IN
               /\ loc[t].n <= USBTMC_MAX_READS_TO_CLEAR_BULK_IN
               /\ (pc[t] = "exit" /\ loc[t].retval = 0) =>
                     loc[t].halted /\ loc[t].st = "SUCCESS")
    /\ [][\A t \in Threads :
            (InAbortOut(t) /\ pc[t] = "abo_init" /\ pc'[t] # "abo_init") =>
               IF EndsInTransportError(t) THEN ~loc'[t].halted
               ELSE IF loc'[t].st = "SUCCESS"
               THEN pc'[t] = "abo_check" /\ loc'[t].n = 0
               ELSE /\ pc'[t] = "exit" /\ loc'[t].retval = 0 - EPERM
                    /\ ~loc'[t].halted]_vars
    /\ [][\A t \in Threads :
            (InAbortOut(t) /\ pc[t] = "abo_check" /\ loc'[t] # loc[t]) =>
               /\ loc'[t].n = loc[t].n + 1
               /\ IF EndsInTransportError(t) THEN ~loc'[t].halted
                  ELSE IF loc'[t].st = "SUCCESS"
                  THEN pc'[t] = "abo_halt" /\ loc'[t].halted
                  ELSE IF loc'[t].st = "PENDING"
                          /\ loc'[t].n < USBTMC_MAX_READS_TO_CLEAR_BULK_IN
                  THEN pc'[t] = "abo_check" /\ ~loc'[t].halted
                  ELSE /\ pc'[t] = "exit" /\ loc'[t].retval = 0 - EPERM
                       /\ ~loc'[t].halted]_vars
    /\ [][\A t \in Threads :
            (InAbortOut(t) /\ pc[t] = "abo_halt" /\ pc'[t] # "abo_halt") =>
               /\ pc'[t] = "exit"
               /\ loc'[t].retval \in {0} \cup TransportErrors]_vars

(* the device has answered PENDING to 100 CHECK requests and the call has  *)
(* failed with -EPERM without a clear-halt                                 *)
C26_Witness ==
    \E t \in Threads :
       /\ InAbortOut(t) /\ pc[t] = "exit"
       /\ loc[t].n = USBTMC_MAX_READS_TO_CLEAR_BULK_IN
       /\ loc[t].st = "PENDING" /\ loc[t].retval = 0 - EPERM
       /\ ~loc[t].halted

(* ------------------------------ partial sends --------------------------- *)
(* number of bytes in the first k pieces *)
RECURSIVE TakenBefore(_, _)
TakenBefore(segs, k) ==
    IF k = 0 THEN 0 ELSE TakenBefore(segs, k - 1) + segs[k].len

(* C27 as stated: the pieces of a frame that bulk-out has taken, in the    *)
(* order of the calls, follow one another in the frame from its first      *)
(* byte, so that together they are the frame once it is out.               *)
C27_ResendRemainder ==
    \A t \in Threads :
       op[t].kind = "write" =>
          LET g == loc[t].segs IN
          /\ \A i \in 1..Len(g) : g[i].off = TakenBefore(g, i - 1)
          /\ (pc[t] = "exit" /\ loc[t].retval = op[t].count /\ op[t].count > 0) =>
                TakenBefore(g, Len(g)) = loc[t].sent[Len(loc[t].sent)].len

(* a write of one byte has returned 1 after bulk-out took the first eight  *)
(* bytes of its 16-byte frame twice                                        *)
C27_Witness ==
    \E t \in Threads :
       /\ pc[t] = "exit" /\ op[t].kind = "write" /\ op[t].count = 1
       /\ loc[t].retval = 1
       /\ loc[t].sent[1].len = 16
       /\ loc[t].segs = <<[off |-> 0, len |-> 8], [off |-> 0, len |-> 8]>>

(* --------------------------- the abort of a read ------------------------ *)
(* a read has reached its exit after a transfer failed or the first reply  *)
(* was refused, with auto_abort set                                        *)
ReadFaulted(t) ==
    /\ pc[t] = "exit" /\ op[t].kind = "read" /\ data.auto_abort
    /\ loc[t].xerr < 0 \/ loc[t].fault # "none"

(* C28, as the code has it: a read with auto_abort set that fails on a     *)
(* bulk-in transfer or on the reply header has run ABORT_BULK_IN; one that *)
(* fails to send its REQUEST_DEV_DEP_MSG_IN on bulk-out has run            *)
(* ABORT_BULK_OUT, with the tag of the request as wValue.                  *)
C28_ReadAbortSide ==
    \A t \in Threads :
       ReadFaulted(t) =>
          IF loc[t].xpipe = "out"
          THEN loc[t].aborted = "out" /\ loc[t].wValue = loc[t].lasttag
          ELSE loc[t].aborted = "in"

(* the request of a read could not be sent and the read has run            *)
(* ABORT_BULK_OUT to its end                                               *)
C28_Witness ==
    \E t \in Threads :
       /\ ReadFaulted(t) /\ loc[t].xpipe = "out" /\ loc[t].frames = 1
       /\ loc[t].xerr = 0 - ETIMEDOUT /\ loc[t].retval = 0 - ETIMEDOUT
       /\ loc[t].aborted = "out" /\ loc[t].abrv = 0

(* C28 as stated: the abort sequence of a faulted read is ABORT_BULK_IN,   *)
(* also when the fault is the failure to send the request.                 *)
C28_ReadAbortIn ==
    \A t \in Threads : ReadFaulted(t) => loc[t].aborted = "in"

(* ----------------------- the header of a reply -------------------------- *)
(* C29 as stated: in a read only the first bulk-in transfer is parsed and  *)
(* validated as a header; no later transfer is, also after a first         *)
(* transfer of the header alone, and no header fault is raised on a later  *)
(* transfer.                                                               *)
C29_HeaderOnlyFirst ==
    \A t \in Threads :
       op[t].kind = "read" =>
          /\ ~loc[t].reparsed
          /\ loc[t].fault # "none" => loc[t].ahead < 0

(* the first transfer of a read of 8 bytes was a header alone that         *)
(* declares 5 bytes; the second transfer, the payload, was checked as a    *)
(* header and refused for its MsgID, and nothing was delivered             *)
C29_Witness ==
    \E t \in Threads :
       /\ pc[t] = "exit" /\ op[t].kind = "read" /\ op[t].count = 8
       /\ loc[t].nchar0 = 5 /\ loc[t].ahead = 0 /\ loc[t].done = 0
       /\ loc[t].reparsed /\ loc[t].fault = "msgid"
       /\ loc[t].retval = 0

(* ------------------- the state a notification changes ------------------- *)
(* the device record without the fields of the status-byte answer and of   *)
(* the URB                                                                 *)
RestOf(d) ==
    [d EXCEPT !.bNotify1 = 0, !.bNotify2 = 0, !.iin_data_valid = 0,
              !.iin_urb = "none", !.iin_status = 0]

StbAnswerOf(d) == <<d.bNotify1, d.bNotify2, d.iin_data_valid>>

(* C30: the callback of a notification [b0, b1] with b0 > 0x81 writes      *)
(* bNotify1, bNotify2 and data-valid and no handle record; with b0 = 0x81  *)
(* it writes srq_byte and srq_asserted of the listed handles and not       *)
(* bNotify1, bNotify2 or data-valid; with any other b0 it writes neither;  *)
(* in all three cases usb_submit_urb is called, and the rest of the device *)
(* record, the handle list and the threads are left as they are.           *)
C30_NotifyFrame ==
    [][\A b0 \in IrqFirsts, b1 \in StbBytes :
         InterruptData({b0}, {b1}) =>
            /\ IF b0 > SRQ_NOTIFY
               THEN /\ StbAnswerOf(data') = <<b0, b1, 1>>
                    /\ file_data' = file_data
               ELSE IF b0 = SRQ_NOTIFY
               THEN /\ StbAnswerOf(data') = StbAnswerOf(data)
                    /\ \A h \in Handles :
                          IF InList(h)
                          THEN file_data'[h] =
                                  [file_data[h] EXCEPT !.srq_byte = b1,
                                                       !.srq_asserted = 1]
                          ELSE file_data'[h] = file_data[h]
               ELSE /\ StbAnswerOf(data') = StbAnswerOf(data)
                    /\ file_data' = file_data
            /\ data'.iin_urb \in {"submitted", "failed"}
            /\ RestOf(data') = RestOf(data)
            /\ UNCHANGED <<file_list, io_mutex, pc, op, loc>>]_vars

(* an SRQ with status byte 64 and an answer [0x82, 66] have both come with *)
(* the two handles open: the handles hold 64, the device record holds 66,  *)
(* and the URB is in flight again                                          *)
C30_Witness ==
    /\ file_list = <<"h1", "h2">>
    /\ \A h \in Handles :
          file_data[h].srq_asserted = 1 /\ file_data[h].srq_byte = 64
    /\ StbAnswerOf(data) = <<SRQ_NOTIFY + 1, 66, 1>>
    /\ data.iin_urb = "submitted"

(* --------------------- the callback beside the threads ------------------ *)
(* SpecCb: the callback and READ_STB run statement by statement where they *)
(* take dev_lock.  One thread opens h1 and makes MaxCbOps READ_STB calls   *)
(* on it; the other opens h2, switches SIGIO on and off and polls h2, at   *)
(* any time or from its SIGIO handler; no one takes h2's SRQ or closes h2. *)
(* The device sends SRQ, answers to READ_STATUS_BYTE and a notification    *)
(* with an invalid first byte.                                             *)
MaxCbOps == 2

CbCalls == {IoctlCall("h1", "READ_STB", 0, 1)}

CbSteps == IrqStart(IrqFirsts, StbBytes) \/ IrqSpinLock \/ IrqSrqStore

NextCb ==
    \/ \E t \in {"u1"} :
          \/ Bounded(StartOp(t, CbCalls), MaxCbOps)
          \/ StartOpen(t, "h1")
          \/ StbSpinLock(t) \/ StbSpinBody(t)
          \/ StbCtrlDone(t) \/ StbWaitDone(t) \/ StbWaitFail(t)
    \/ \E t \in {"u2"} :
          \/ Free(StartOp(t, {PollCall("h2")}))
          \/ Free(SigPoll(t, "h2"))
          \/ StartOpen(t, "h2")
          \/ BeginPoll(t)
    \/ \E t \in Threads : Gate(t) \/ UnderSpin(BeginOpen(t))
    \/ \E on \in BOOLEAN : Fasync("h2", on)
    \/ CbSteps

SpecCb == Init /\ [][NextCb]_vars

(* a READ_STB sleeps on data->waitq with the gate in its hands *)
StbSleeps(t) == pc[t] = "stb_wait" /\ io_mutex = t

(* C31: the callback starts whoever holds io_mutex, and once started it    *)
(* stops only for dev_lock; it changes neither the owner of io_mutex nor   *)
(* the position of a thread.  A thread that holds dev_lock took io_mutex   *)
(* before and is at no blocking call, and the owner of dev_lock can always *)
(* go on to release it.  An answer [b0 > 0x81, b1] that comes while a      *)
(* READ_STB sleeps with the gate in its hands sets data-valid, and with    *)
(* data-valid set the sleeper can leave its wait; a sleeper can always     *)
(* leave its wait one way or the other.                                    *)
C31_CallbackNeverBlocks ==
    /\ []((data.iin_urb = "submitted" /\ data.cb = "none")
             => ENABLED IrqStart(IrqFirsts, StbBytes))
    /\ []((data.cb = "spin" /\ SpinFree) => ENABLED IrqSpinLock)
    /\ [](data.cb = "list" => (data.dev_lock = "irq" /\ ENABLED IrqSrqStore))
    /\ [][CbSteps => (io_mutex' = io_mutex /\ pc' = pc)]_vars
    /\ [](\A t \in Threads :
             data.dev_lock = t =>
                /\ io_mutex = t
                /\ pc[t] = "stb_spin"
                /\ ENABLED StbSpinBody(t))
    /\ [][\A t \in Threads, b0 \in IrqFirsts, b1 \in StbBytes :
            (StbSleeps(t) /\ b0 > SRQ_NOTIFY /\ IrqStart({b0}, {b1})) =>
               /\ data'.iin_data_valid # 0
               /\ data'.bNotify2 = b1]_vars
    /\ [](\A t \in Threads :
             StbSleeps(t) =>
                /\ data.iin_data_valid # 0 => ENABLED StbWaitDone(t)
                /\ ENABLED (StbWaitDone(t) \/ StbWaitFail(t)))

(* the answer to u1's READ_STB has come while u1 sleeps with the gate in   *)
(* its hands and u2 waits for the gate, and the callback of an SRQ that    *)
(* came after it is walking the handle list under dev_lock                 *)
C31_Witness ==
    /\ StbSleeps("u1")
    /\ data.iin_data_valid # 0
    /\ data.bNotify1 = 128 + loc["u1"].wValue
    /\ pc["u2"] = "lock" /\ op["u2"].kind = "poll"
    /\ data.cb = "list" /\ data.dev_lock = "irq"

(* ---------------------------- the end of a read ------------------------- *)
(* SpecLive: one thread opens h1 and reads eight bytes from it MaxLiveOps   *)
(* times; auto_abort is off.  Every transfer the driver has issued         *)
(* returns, and the thread is scheduled: a step of the read that can be    *)
(* taken is taken.  What a transfer brings is the device's choice.         *)
MaxLiveOps == 2

LiveCalls == {ReadCall("h1", 8, 8)}

NextLive ==
    \E t \in {"u1"} :
       \/ Bounded(StartOp(t, LiveCalls), MaxLiveOps)
       \/ StartOpen(t, "h1") \/ BeginOpen(t)
       \/ Gate(t)
       \/ ReadSteps(t)

SpecLive ==
    /\ Init
    /\ [][NextLive]_vars
    /\ WF_vars(Gate("u1"))
    /\ WF_vars(BeginRead("u1"))
    /\ WF_vars(RdSendDone("u1"))
    /\ WF_vars(RdBulkInDone("u1"))

(* C32 as stated: a read that has entered its loop of bulk-in transfers    *)
(* leaves it, whatever the transfers bring.                                *)
C32_ReadTerminates ==
    \A t \in Threads : (pc[t] = "rd_bulk_in") ~> (pc[t] = "exit")

(* a third bare header has come for a read of eight bytes: nothing is      *)
(* copied, all eight bytes are still wanted, and the loop goes on          *)
C32_Witness ==
    \E t \in Threads :
       /\ pc[t] = "rd_bulk_in"
       /\ loc[t].done = 0 /\ loc[t].remaining = 8
       /\ loc[t].reparsed /\ loc[t].idle = 1

(* ------------------------ whose answer a READ_STB takes ----------------- *)
(* C33 as stated: a READ_STB that leaves its wait with success has found,  *)
(* in bNotify1, the tag it sent in wValue of its READ_STATUS_BYTE request. *)
C33_OwnAnswer ==
    [][\A t \in Threads :
         (pc[t] = "stb_wait" /\ pc'[t] = "exit" /\ loc'[t].retval = 0) =>
            data.bNotify1 % 128 = loc[t].wValue]_vars

(* the second READ_STB sent tag 3, and has returned with success the byte  *)
(* of a notification that carries tag 2, the tag of the first request      *)
C33_Witness ==
    \E t \in Threads :
       /\ pc[t] = "exit" /\ op[t].cmd = "READ_STB" /\ nops = 2
       /\ loc[t].wValue = 3 /\ loc[t].retval = 0 /\ loc[t].stb = 66
       /\ data.bNotify1 = SRQ_NOTIFY + 1 /\ data.bNotify2 = 66
       /\ data.iin_bTag = 4

(* ------------------------------ SIGIO and poll -------------------------- *)
(* the callback calls kill_fasync in this step *)
SigioSent == data.fasync /\ data.cb = "none" /\ data'.cb = "spin"

(* a poll made by the handler of SIGIO has computed its mask *)
SigPolled(t) == pc[t] = "exit" /\ op[t].kind = "poll" /\ op[t].sig

(* C34 as stated: when the callback sends SIGIO, srq_asserted is set on     *)
(* every listed handle, and a poll that the handler of the signal makes on *)
(* a handle that was open then reports POLLPRI.                            *)
C34_SigioAfterFlags ==
    /\ [][SigioSent => \A h \in Handles :
                          InList(h) => file_data'[h].srq_asserted = 1]_vars
    /\ [](\A t \in Threads : SigPolled(t) => "POLLPRI" \in loc[t].mask)

(* the handler's poll on h2 has found nothing, and the callback has set    *)
(* h2's flag since                                                         *)
C34_Witness ==
    \E t \in Threads :
       /\ SigPolled(t) /\ op[t].h = "h2" /\ loc[t].mask = {}
       /\ file_data["h2"].srq_asserted = 1
       /\ data.cb = "none"

=============================================================================
